---------------------------- MODULE Spec2Model ----------------------------
(***************************************************************************)
(* A model of the query path of the Database Knowledge Base service:       *)
(*   - the Router        (app.py, classify_query_and_get_targets)          *)
(*   - the Merger        (app.py, multi_kb_query)                          *)
(*   - the Aggregator    (retrieval_techniques.py, deduplicate / sort)     *)
(*   - the Engine cache  (retrieval_techniques.py, AdvancedRetrieval)      *)
(*   - the Correction Loop (feedback_processor.py, FeedbackProcessor)      *)
(* Text is modelled as a sequence of one-character strings so that         *)
(* lower(), substring search, slicing and concatenation are computed.      *)
(***************************************************************************)
EXTENDS Integers, Sequences, FiniteSets, TLC

VARIABLES
    route,      \* the Router: one classify_query_and_get_targets call
    agg,        \* the Aggregator: one deduplicate / sort / truncate pass
    merge,      \* the Merger: one multi_kb_query request
    cache,      \* AdvancedRetrieval.cache of one engine instance
    kb_version, \* the content of the knowledge base the engine retrieves from
    now,        \* time.time()
    last,       \* what the latest strategy call on the engine did
    tables,     \* the feedback database: its three tables and row locks
    runs        \* the process_pending_feedback runs, one connection each

vars == <<route, agg, merge, cache, kb_version, now, last, tables, runs>>

\* Python's None
None == "None"

\* Value of a subsystem's variable in a specification that does not run it
Idle == [phase |-> "idle"]

\* self.cache = {}
EmptyCache == [key \in {} |-> None]

-----------------------------------------------------------------------------
(* Text helpers *)

UpperChars ==
    <<"A","B","C","D","E","F","G","H","I","J","K","L","M",
      "N","O","P","Q","R","S","T","U","V","W","X","Y","Z">>

LowerChars ==
    <<"a","b","c","d","e","f","g","h","i","j","k","l","m",
      "n","o","p","q","r","s","t","u","v","w","x","y","z">>

\* str.lower() on one character
LowerChar(c) ==
    IF \E i \in DOMAIN UpperChars : UpperChars[i] = c
    THEN LowerChars[CHOOSE i \in DOMAIN UpperChars : UpperChars[i] = c]
    ELSE c

\* str.upper() on one character
UpperChar(c) ==
    IF \E i \in DOMAIN LowerChars : LowerChars[i] = c
    THEN UpperChars[CHOOSE i \in DOMAIN LowerChars : LowerChars[i] = c]
    ELSE c

IsLetter(c) ==
    \E i \in DOMAIN UpperChars : UpperChars[i] = c \/ LowerChars[i] = c

\* str.lower()
Lower(text) == [i \in DOMAIN text |-> LowerChar(text[i])]

\* Python's  keyword in text  (substring test)
Contains(text, keyword) ==
    \E i \in 0 .. (Len(text) - Len(keyword)) :
        SubSeq(text, i + 1, i + Len(keyword)) = keyword

\* Python's  text[:n]
Prefix(text, n) == SubSeq(text, 1, IF n < Len(text) THEN n ELSE Len(text))

\* Python truthiness of an Optional[str]
Truthy(x) == x # None /\ x # ""

-----------------------------------------------------------------------------
(* Router: classify_query_and_get_targets *)

db_keywords ==
    << <<"t","a","b","l","e">>,
       <<"c","o","l","u","m","n">>,
       <<"d","a","t","a","b","a","s","e">>,
       <<"s","q","l">>,
       <<"q","u","e","r","y">>,
       <<"s","c","h","e","m","a">>,
       <<"i","n","d","e","x">>,
       <<"f","o","r","e","i","g","n"," ","k","e","y">>,
       <<"p","r","i","m","a","r","y"," ","k","e","y">>,
       <<"r","e","l","a","t","i","o","n","s","h","i","p">>,
       <<"j","o","i","n">> >>

support_keywords ==
    << <<"e","r","r","o","r">>,
       <<"i","s","s","u","e">>,
       <<"p","r","o","b","l","e","m">>,
       <<"t","r","o","u","b","l","e","s","h","o","o","t">>,
       <<"f","i","x">>,
       <<"b","u","g">>,
       <<"h","e","l","p">>,
       <<"s","u","p","p","o","r","t">>,
       <<"t","i","c","k","e","t">>,
       <<"r","e","s","o","l","v","e">> >>

doc_keywords ==
    << <<"h","o","w"," ","t","o">>,
       <<"g","u","i","d","e">>,
       <<"t","u","t","o","r","i","a","l">>,
       <<"d","o","c","u","m","e","n","t","a","t","i","o","n">>,
       <<"m","a","n","u","a","l">>,
       <<"i","n","s","t","r","u","c","t","i","o","n">>,
       <<"f","e","a","t","u","r","e">>,
       <<"f","u","n","c","t","i","o","n","a","l","i","t","y">> >>

\* sum(1 for keyword in keywords if keyword in query_lower)
KeywordScore(keywords, query_lower) ==
    Cardinality({i \in DOMAIN keywords : Contains(query_lower, keywords[i])})

db_score(query_text) == KeywordScore(db_keywords, Lower(query_text))
support_score(query_text) == KeywordScore(support_keywords, Lower(query_text))
doc_score(query_text) == KeywordScore(doc_keywords, Lower(query_text))

\* Mutant: the secondary flag defaults to True
QueryTargetSecondary(type, kbId) == [type |-> type, kbId |-> kbId, secondary |-> TRUE]

\* QueryTarget(type=..., kbId=...): secondary defaults to False (a secondary
\* of None counts as False: target.secondary or False)
QueryTarget(type, kbId) == [type |-> type, kbId |-> kbId, secondary |-> FALSE]

\* Mutant: the database branch appends only when the id is truthy and
\* otherwise takes the first other configured source
ForcedDatabaseGuarded(app_kbs) ==
    IF Truthy(app_kbs.supportKnowledgeBaseId)
    THEN <<QueryTarget("support", app_kbs.supportKnowledgeBaseId)>>
    ELSE <<QueryTarget("database", app_kbs.databaseKnowledgeBaseId)>>

\* query_mode == 'database'
ForcedDatabase(app_kbs) ==
    <<QueryTarget("database", app_kbs.databaseKnowledgeBaseId)>>

\* Mutant: the availability test of the support branch is dropped
ForcedSupportUnguarded(app_kbs) ==
    <<QueryTarget("support", app_kbs.supportKnowledgeBaseId)>>

\* query_mode == 'support'
ForcedSupport(app_kbs) ==
    IF Truthy(app_kbs.supportKnowledgeBaseId)
    THEN <<QueryTarget("support", app_kbs.supportKnowledgeBaseId)>>
    ELSE << >>

\* query_mode == 'documentation'
ForcedDocumentation(app_kbs) ==
    IF Truthy(app_kbs.documentationKnowledgeBaseId)
    THEN <<QueryTarget("documentation", app_kbs.documentationKnowledgeBaseId)>>
    ELSE << >>

\* Mutant: the first comparison reads doc_score >= db_score
PrimaryTargetSwapped(db, support, doc, app_kbs) ==
    IF db >= support /\ doc >= db
    THEN <<QueryTarget("database", app_kbs.databaseKnowledgeBaseId)>>
    ELSE IF support > doc /\ Truthy(app_kbs.supportKnowledgeBaseId)
    THEN <<QueryTarget("support", app_kbs.supportKnowledgeBaseId)>>
    ELSE IF Truthy(app_kbs.documentationKnowledgeBaseId)
    THEN <<QueryTarget("documentation", app_kbs.documentationKnowledgeBaseId)>>
    ELSE <<QueryTarget("database", app_kbs.databaseKnowledgeBaseId)>>

\* Mutant: the support branch does not test that the source is configured
PrimaryTargetUnguarded(db, support, doc, app_kbs) ==
    IF db >= support /\ db >= doc
    THEN <<QueryTarget("database", app_kbs.databaseKnowledgeBaseId)>>
    ELSE IF support > doc
    THEN <<QueryTarget("support", app_kbs.supportKnowledgeBaseId)>>
    ELSE IF Truthy(app_kbs.documentationKnowledgeBaseId)
    THEN <<QueryTarget("documentation", app_kbs.documentationKnowledgeBaseId)>>
    ELSE <<QueryTarget("database", app_kbs.databaseKnowledgeBaseId)>>

\* Mutant: the chain ends without its default to the database source
PrimaryTargetNoDefault(db, support, doc, app_kbs) ==
    IF db >= support /\ db >= doc
    THEN <<QueryTarget("database", app_kbs.databaseKnowledgeBaseId)>>
    ELSE IF support > doc /\ Truthy(app_kbs.supportKnowledgeBaseId)
    THEN <<QueryTarget("support", app_kbs.supportKnowledgeBaseId)>>
    ELSE IF Truthy(app_kbs.documentationKnowledgeBaseId)
    THEN <<QueryTarget("documentation", app_kbs.documentationKnowledgeBaseId)>>
    ELSE << >>

\* "Determine primary target": the if / elif / elif / else chain
PrimaryTarget(db, support, doc, app_kbs) ==
    IF db >= support /\ db >= doc
    THEN <<QueryTarget("database", app_kbs.databaseKnowledgeBaseId)>>
    ELSE IF support > doc /\ Truthy(app_kbs.supportKnowledgeBaseId)
    THEN <<QueryTarget("support", app_kbs.supportKnowledgeBaseId)>>
    ELSE IF Truthy(app_kbs.documentationKnowledgeBaseId)
    THEN <<QueryTarget("documentation", app_kbs.documentationKnowledgeBaseId)>>
    ELSE <<QueryTarget("database", app_kbs.databaseKnowledgeBaseId)>>

\* The smart-routing branch
SmartRouting(query_text, app_kbs) ==
    PrimaryTarget(db_score(query_text), support_score(query_text),
                  doc_score(query_text), app_kbs)

classify_query_and_get_targets(query_text, app_kbs, query_mode) ==
    IF query_mode = "database" THEN ForcedDatabase(app_kbs)
    ELSE IF query_mode = "support" THEN ForcedSupport(app_kbs)
    ELSE IF query_mode = "documentation" THEN ForcedDocumentation(app_kbs)
    ELSE SmartRouting(query_text, app_kbs)

(* Inputs of the Router *)

\* Longest query, in phrases of the vocabulary
MaxWords == 3

Vocabulary ==
    { <<"t","a","b","l","e">>,
      <<"S","Q","L">>,
      <<"e","r","r","o","r">>,
      <<"P","r","e","f","i","x">>,
      <<"g","u","i","d","e">>,
      <<"h","o","w"," ","t","o">>,
      <<"o","r","d","e","r","s">> }

RECURSIVE JoinWords(_)
\* " ".join(words)
JoinWords(words) ==
    IF Len(words) = 0 THEN << >>
    ELSE IF Len(words) = 1 THEN words[1]
    ELSE words[1] \o <<" ">> \o JoinWords(Tail(words))

QueryTexts ==
    {JoinWords(ws) : ws \in UNION {[1 .. n -> Vocabulary] : n \in 0 .. MaxWords}}

QueryModes == {"smart", "database", "support", "documentation"}

\* ApplicationKBs: the database id is a required str, the others Optional[str]
ApplicationKBs ==
    [databaseKnowledgeBaseId : {"KB-DB"},
     supportKnowledgeBaseId : {None, "", "KB-SUP"},
     documentationKnowledgeBaseId : {None, "", "KB-DOC"}]

InitRouter ==
    /\ route \in [phase : {"request"}, query_text : QueryTexts,
                  app_kbs : ApplicationKBs, query_mode : QueryModes,
                  targets : {<< >>}]
    /\ agg = Idle /\ merge = Idle
    /\ cache = EmptyCache /\ kb_version = 1 /\ now = 0 /\ last = Idle /\ tables = Idle /\ runs = Idle

\* One call of classify_query_and_get_targets
Classify ==
    /\ route.phase = "request"
    /\ route' = [route EXCEPT
                   !.phase = "routed",
                   !.targets = classify_query_and_get_targets(
                                   route.query_text, route.app_kbs, route.query_mode)]
    /\ UNCHANGED <<agg, merge, cache, kb_version, now, last, tables, runs>>

NextRouter == Classify

SpecRouter == InitRouter /\ [][NextRouter]_vars

-----------------------------------------------------------------------------
(* Aggregator: deduplicate by content hash, sort by score, truncate *)

\* hashlib.md5(context['content'].encode()).hexdigest(): a function of the raw
\* content alone (no case folding, no whitespace handling); md5 is taken to
\* be free of collisions on the contents used
content_hash(content) == <<"md5", content>>

\* Position of key h in the insertion-ordered dict, 0 when absent
KeyIndex(unique_contexts, h) ==
    IF \E i \in DOMAIN unique_contexts : unique_contexts[i].key = h
    THEN CHOOSE i \in DOMAIN unique_contexts : unique_contexts[i].key = h
    ELSE 0

\* Mutant: the score comparison is dropped, the last context seen wins
ShouldStoreAlways(unique_contexts, context) == TRUE

\* content_hash not in unique_contexts or
\*     context['score'] > unique_contexts[content_hash]['score']
ShouldStore(unique_contexts, context) ==
    LET i == KeyIndex(unique_contexts, content_hash(context.content)) IN
    i = 0 \/ context.score > unique_contexts[i].value.score

\* unique_contexts[content_hash] = context: a new key is appended, an
\* existing key keeps its position in the dict
StoreContext(unique_contexts, context) ==
    LET h == content_hash(context.content)
        i == KeyIndex(unique_contexts, h) IN
    IF i = 0
    THEN Append(unique_contexts, [key |-> h, value |-> context])
    ELSE [unique_contexts EXCEPT ![i] = [key |-> h, value |-> context]]

RECURSIVE DeduplicateFrom(_, _)
\* for context in all_contexts: ... (the loop, unique_contexts so far)
DeduplicateFrom(all_contexts, unique_contexts) ==
    IF all_contexts = << >> THEN unique_contexts
    ELSE LET context == Head(all_contexts) IN
         DeduplicateFrom(Tail(all_contexts),
                         IF ShouldStore(unique_contexts, context)
                         THEN StoreContext(unique_contexts, context)
                         ELSE unique_contexts)

\* unique_contexts = {} followed by the loop
Deduplicate(all_contexts) == DeduplicateFrom(all_contexts, << >>)

\* unique_contexts.values()
DictValues(unique_contexts) ==
    [i \in DOMAIN unique_contexts |-> unique_contexts[i].value]

RECURSIVE InsertByScore(_, _)
\* Insert context behind every element whose score is not lower
InsertByScore(sorted_contexts, context) ==
    IF sorted_contexts = << >> THEN <<context>>
    ELSE IF Head(sorted_contexts).score >= context.score
    THEN <<Head(sorted_contexts)>> \o InsertByScore(Tail(sorted_contexts), context)
    ELSE <<context>> \o sorted_contexts

RECURSIVE SortByScore(_)
\* sorted(contexts, key=lambda x: x['score'], reverse=True): stable
SortByScore(contexts) ==
    IF contexts = << >> THEN << >>
    ELSE InsertByScore(SortByScore(SubSeq(contexts, 1, Len(contexts) - 1)),
                       contexts[Len(contexts)])

\* Mutant: the dict values are truncated in insertion order, unsorted
TopContextsUnsorted(unique_contexts, num_results) ==
    Prefix(DictValues(unique_contexts), num_results)

\* sorted(unique_contexts.values(), ...)[:num_results]
TopContexts(unique_contexts, num_results) ==
    Prefix(SortByScore(DictValues(unique_contexts)), num_results)

(* Inputs of the Aggregator *)

\* Most contexts in one merge
MaxContexts == 3
\* Highest score the provider returns
MaxScore == 2
\* Largest requested count
MaxResults == 3

Contents ==
    { <<"a"," ","b">>, <<"A"," "," ","b">>, <<"c">> }

Contexts == [content : Contents, score : 0 .. MaxScore]

ContextLists == UNION {[1 .. n -> Contexts] : n \in 0 .. MaxContexts}

InitAggregator ==
    /\ agg \in [phase : {"input"}, all_contexts : ContextLists,
                num_results : 1 .. MaxResults,
                unique_contexts : {<< >>}, sorted_contexts : {<< >>}]
    /\ route = Idle /\ merge = Idle
    /\ cache = EmptyCache /\ kb_version = 1 /\ now = 0 /\ last = Idle /\ tables = Idle /\ runs = Idle

\* One deduplicate / sort / truncate pass over all_contexts
Aggregate ==
    /\ agg.phase = "input"
    /\ LET unique_contexts == Deduplicate(agg.all_contexts) IN
       agg' = [agg EXCEPT
                 !.phase = "merged",
                 !.unique_contexts = unique_contexts,
                 !.sorted_contexts = TopContexts(unique_contexts, agg.num_results)]
    /\ UNCHANGED <<route, merge, cache, kb_version, now, last, tables, runs>>

NextAggregator == Aggregate

SpecAggregator == InitAggregator /\ [][NextAggregator]_vars

-----------------------------------------------------------------------------
(* Engine: the strategies of AdvancedRetrieval and their cache *)

\* self.cache_ttl = 3600  (seconds)
cache_ttl == 3600

\* generate_cache_key: md5 of "query::num_results::method:<name>", which
\* determines (query_text, num_results, method); md5 is taken to be free of
\* collisions
generate_cache_key(query_text, num_results, method) ==
    <<query_text, num_results, method>>

\* Mutant: an entry is still served when exactly cache_ttl seconds old
IsFreshInclusive(c, cache_key, t) ==
    cache_key \in DOMAIN c /\ t - c[cache_key].timestamp <= cache_ttl

\* cache_key in self.cache and
\*     time.time() - self.cache[cache_key]['timestamp'] < self.cache_ttl
IsFresh(c, cache_key, t) ==
    cache_key \in DOMAIN c /\ t - c[cache_key].timestamp < cache_ttl

\* Mutant: the result is returned without being stored
CachePutSkipped(c, cache_key, result, t) == c

\* Mutant: an entry that is replaced keeps the timestamp it had
CachePutKeepStamp(c, cache_key, result, t) ==
    [k \in DOMAIN c \cup {cache_key} |->
        IF k = cache_key
        THEN [result |-> result,
              timestamp |-> IF k \in DOMAIN c THEN c[k].timestamp ELSE t]
        ELSE c[k]]

\* self.cache[cache_key] = {'result': result, 'timestamp': time.time()}
CachePut(c, cache_key, result, t) ==
    [k \in DOMAIN c \cup {cache_key} |->
        IF k = cache_key THEN [result |-> result, timestamp |-> t] ELSE c[k]]

\* Content and score of the context the mock fallback returns (score 1.0,
\* scores being counted in hundredths)
MockContent == <<"m","o","c","k">>
MockScore == 100

\* The contexts built from response.get('retrievalResults', []): content and
\* score of each item (source, content_sample and from_query are carried
\* along by the code and read by nothing modelled here)
ContextsOf(response) ==
    [i \in DOMAIN response.retrievalResults |->
        [content |-> response.retrievalResults[i].content,
         score |-> response.retrievalResults[i].score]]

\* A strategy's result dict; hypothetical_document is a key of the HyDE
\* result only (None elsewhere)
StrategyResult(method, contexts, error) ==
    [retrieval_method |-> method, contexts |-> contexts, error |-> error,
     hypothetical_document |-> None]

\* What a strategy call hands back: its result, the cache it leaves and the
\* number of kb_client.retrieve calls it made
Outcome(result, c, gw) == [result |-> result, cache |-> c, gw |-> gw]

\* standard_query; retrieve is what kb_client.retrieve does when called
standard_query(c, t, query_text, num_results, retrieve) ==
    LET cache_key == generate_cache_key(query_text, num_results, "standard") IN
    IF IsFresh(c, cache_key, t)
    THEN Outcome(c[cache_key].result, c, 0)
    ELSE IF retrieve.ok
    THEN LET result == StrategyResult("standard", ContextsOf(retrieve), FALSE) IN
         Outcome(result, CachePut(c, cache_key, result, t), 1)
    ELSE Outcome(StrategyResult("standard (mock fallback)",
                                <<[content |-> MockContent, score |-> MockScore]>>,
                                TRUE),
                 c, 1)

\* generate_expanded_queries; generate is what bedrock_client.invoke_model
\* does: it raises, or it returns the lines of its text
generate_expanded_queries(query_text, generate) ==
    IF ~generate.ok THEN <<query_text>>
    ELSE IF \E i \in DOMAIN generate.lines : generate.lines[i] = query_text
    THEN generate.lines
    ELSE Append(generate.lines, query_text)

\* Number of retrieve calls the expansion loop makes: it stops at the first
\* call that raises
RECURSIVE RetrievesMade(_, _)
RetrievesMade(retrieves, n) ==
    IF n = 0 THEN 0
    ELSE IF ~retrieves[1].ok THEN 1
    ELSE 1 + RetrievesMade(Tail(retrieves), n - 1)

RECURSIVE ExtendContexts(_, _)
\* all_contexts.extend(contexts) for the first n retrieve calls
ExtendContexts(retrieves, n) ==
    IF n = 0 THEN << >>
    ELSE ContextsOf(retrieves[1]) \o ExtendContexts(Tail(retrieves), n - 1)

\* query_expansion; retrieves[i] is what the i-th kb_client.retrieve does
query_expansion(c, t, query_text, num_results, generate, retrieves) ==
    LET cache_key == generate_cache_key(query_text, num_results, "expansion")
        expanded_queries == generate_expanded_queries(query_text, generate)
        n == Len(expanded_queries) IN
    IF IsFresh(c, cache_key, t)
    THEN Outcome(c[cache_key].result, c, 0)
    ELSE IF \A i \in 1 .. n : retrieves[i].ok
    THEN LET all_contexts == ExtendContexts(retrieves, n)
             result == StrategyResult("query_expansion",
                          TopContexts(Deduplicate(all_contexts), num_results),
                          FALSE) IN
         Outcome(result, CachePut(c, cache_key, result, t), n)
    ELSE Outcome(StrategyResult("query_expansion", << >>, TRUE),
                 c, RetrievesMade(retrieves, n))

\* The text the model writes as hypothetical document
HypotheticalText == "Tables are listed in the schema"

\* generate_hypothetical_document: the model's text, or the query text when
\* the model call raises
generate_hypothetical_document(query_text, generate) ==
    IF generate THEN HypotheticalText ELSE query_text

\* hyde_retrieval: the retrieve call is made with the hypothetical document,
\* whichever of the two texts it is
hyde_retrieval(c, t, query_text, num_results, generate, retrieve) ==
    LET cache_key == generate_cache_key(query_text, num_results, "hyde")
        hypothetical_doc == generate_hypothetical_document(query_text, generate) IN
    IF IsFresh(c, cache_key, t)
    THEN Outcome(c[cache_key].result, c, 0)
    ELSE IF retrieve.ok
    THEN LET result == [StrategyResult("hyde", ContextsOf(retrieve), FALSE)
                           EXCEPT !.hypothetical_document = hypothetical_doc] IN
         Outcome(result, CachePut(c, cache_key, result, t), 1)
    ELSE Outcome(StrategyResult("hyde", << >>, TRUE), c, 1)

\* max(2, num_results // 3)
results_per_method(num_results) ==
    IF num_results \div 3 > 2 THEN num_results \div 3 ELSE 2

\* multi_strategy_retrieval; env holds what the model and the knowledge base
\* do for each of the three strategies
multi_strategy_retrieval(c, t, query_text, num_results, env) ==
    LET cache_key == generate_cache_key(query_text, num_results, "multi")
        per_method == results_per_method(num_results)
        standard_results ==
            standard_query(c, t, query_text, per_method, env.standard)
        expansion_results ==
            query_expansion(standard_results.cache, t, query_text, per_method,
                            env.generate, env.expansion)
        hyde_results ==
            hyde_retrieval(expansion_results.cache, t, query_text, per_method,
                           env.hyde_generate, env.hyde)
        all_contexts ==
            standard_results.result.contexts
                \o expansion_results.result.contexts
                \o hyde_results.result.contexts
        result == StrategyResult("multi_strategy",
                     TopContexts(Deduplicate(all_contexts), num_results), FALSE) IN
    IF IsFresh(c, cache_key, t)
    THEN Outcome(c[cache_key].result, c, 0)
    ELSE Outcome(result, CachePut(hyde_results.cache, cache_key, result, t),
                 standard_results.gw + expansion_results.gw + hyde_results.gw)

(* Inputs of the Engine *)

\* Seconds the clock advances in one step, and how many steps it takes
TickLen == cache_ttl
MaxTicks == 1

\* How many times the content of the knowledge base changes
MaxKbVersion == 2

\* num_results of a direct strategy call and of a multi-strategy call
DirectResults == 2
MultiResults == 8

EngineQuery == "show tables"
Paraphrase == "list tables"

\* kb_client.retrieve raises
RetrieveRaises == [ok |-> FALSE, retrievalResults |-> << >>]

\* The retrievalResults of the knowledge base for a text: they depend on the
\* text and on the content of the knowledge base (scores in hundredths)
KbResults(version, text) ==
    IF text = EngineQuery
    THEN IF version = 1
         THEN <<[content |-> <<"c">>, score |-> 50]>>
         ELSE <<[content |-> <<" ">>, score |-> 40 + 10 * version],
                [content |-> << >>, score |-> 30]>>
    ELSE IF text = Paraphrase
    THEN <<[content |-> <<"a"," ","b">>, score |-> 70],
           [content |-> <<"c">>, score |-> 90 - 20 * version]>>
    ELSE <<[content |-> <<"A"," "," ","b">>, score |-> 60],
           [content |-> <<"a"," ","b">>, score |-> 50 + 15 * version]>>

\* What one kb_client.retrieve call does: it raises or returns the results
Retrieve(version, text, ok) ==
    IF ok THEN [ok |-> TRUE, retrievalResults |-> KbResults(version, text)]
    ELSE RetrieveRaises

\* What bedrock_client.invoke_model can do for generate_expanded_queries
GenerateRaises == [ok |-> FALSE, lines |-> << >>]
GenerateOutcomes == {GenerateRaises, [ok |-> TRUE, lines |-> <<Paraphrase>>]}

\* Longest list of expanded queries
MaxExpanded == 2

\* What the latest call did: the strategy and its key, the time, whether the
\* key had no entry, a stale one or a fresh one, the retrieve calls made and
\* the result returned
Called(method, num_results, c, t, out) ==
    LET cache_key == generate_cache_key(EngineQuery, num_results, method) IN
    [phase |-> "called", method |-> method, key |-> cache_key, at |-> t,
     found |-> IF cache_key \notin DOMAIN c THEN "none"
               ELSE IF IsFresh(c, cache_key, t) THEN "fresh" ELSE "stale",
     gw |-> out.gw, result |-> out.result]

InitEngine ==
    /\ cache = EmptyCache /\ kb_version = 1 /\ now = 0 /\ last = Idle /\ tables = Idle /\ runs = Idle
    /\ route = Idle /\ agg = Idle /\ merge = Idle

\* Time passes
Tick ==
    /\ now + TickLen <= MaxTicks * TickLen
    /\ now' = now + TickLen
    /\ UNCHANGED <<cache, kb_version, last, route, agg, merge, tables, runs>>

\* The content of the knowledge base changes (an ingestion job completes)
KbUpdate ==
    /\ kb_version < MaxKbVersion
    /\ kb_version' = kb_version + 1
    /\ UNCHANGED <<cache, now, last, route, agg, merge, tables, runs>>

\* The external calls are drawn only where the strategy makes them: none on
\* a cache hit, one retrieve per expanded query

Hit(method, num_results) ==
    IsFresh(cache, generate_cache_key(EngineQuery, num_results, method), now)

\* Whether a retrieve call succeeds
RetrieveChoices(method, num_results) ==
    IF Hit(method, num_results) THEN {FALSE} ELSE BOOLEAN

GenerateChoices(num_results) ==
    IF Hit("expansion", num_results) THEN {GenerateRaises} ELSE GenerateOutcomes

\* Whether each retrieve call of the expansion loop succeeds
ExpansionChoices(num_results, generate) ==
    IF Hit("expansion", num_results) THEN {[i \in 1 .. MaxExpanded |-> FALSE]}
    ELSE {oks \in [1 .. MaxExpanded -> BOOLEAN] :
             \A i \in 1 .. MaxExpanded :
                i > Len(generate_expanded_queries(EngineQuery, generate))
                   => ~oks[i]}

\* The retrieve calls of the expansion loop, one per expanded query
ExpansionRetrieves(generate, oks) ==
    LET expanded_queries == generate_expanded_queries(EngineQuery, generate) IN
    [i \in 1 .. MaxExpanded |->
        IF i <= Len(expanded_queries)
        THEN Retrieve(kb_version, expanded_queries[i], oks[i])
        ELSE RetrieveRaises]

\* Whether generate_hypothetical_document's model call succeeds
HydeGenerateChoices(num_results) ==
    IF Hit("hyde", num_results) THEN {FALSE} ELSE BOOLEAN

CallStandard ==
    \E ok \in RetrieveChoices("standard", DirectResults) :
       LET out == standard_query(cache, now, EngineQuery, DirectResults,
                                 Retrieve(kb_version, EngineQuery, ok)) IN
       /\ cache' = out.cache
       /\ last' = Called("standard", DirectResults, cache, now, out)
       /\ UNCHANGED <<kb_version, now, route, agg, merge, tables, runs>>

CallExpansion ==
    \E generate \in GenerateChoices(DirectResults) :
    \E oks \in ExpansionChoices(DirectResults, generate) :
       LET out == query_expansion(cache, now, EngineQuery, DirectResults,
                                  generate, ExpansionRetrieves(generate, oks)) IN
       /\ cache' = out.cache
       /\ last' = Called("expansion", DirectResults, cache, now, out)
       /\ UNCHANGED <<kb_version, now, route, agg, merge, tables, runs>>

CallHyde ==
    \E generate \in HydeGenerateChoices(DirectResults) :
    \E ok \in RetrieveChoices("hyde", DirectResults) :
       LET out == hyde_retrieval(cache, now, EngineQuery, DirectResults, generate,
                      Retrieve(kb_version,
                               generate_hypothetical_document(EngineQuery, generate),
                               ok)) IN
       /\ cache' = out.cache
       /\ last' = Called("hyde", DirectResults, cache, now, out)
       /\ UNCHANGED <<kb_version, now, route, agg, merge, tables, runs>>

CallMulti ==
    LET per_method == results_per_method(MultiResults)
        hit == Hit("multi", MultiResults) IN
    \E standard \in (IF hit THEN {FALSE} ELSE RetrieveChoices("standard", per_method)) :
    \E generate \in (IF hit THEN {GenerateRaises} ELSE GenerateChoices(per_method)) :
    \E expansion \in (IF hit THEN {[i \in 1 .. MaxExpanded |-> FALSE]}
                      ELSE ExpansionChoices(per_method, generate)) :
    \E hyde_generate \in (IF hit THEN {FALSE} ELSE HydeGenerateChoices(per_method)) :
    \E hyde \in (IF hit THEN {FALSE} ELSE RetrieveChoices("hyde", per_method)) :
       LET env == [standard |-> Retrieve(kb_version, EngineQuery, standard),
                   generate |-> generate,
                   expansion |-> ExpansionRetrieves(generate, expansion),
                   hyde_generate |-> hyde_generate,
                   hyde |-> Retrieve(kb_version,
                               generate_hypothetical_document(EngineQuery, hyde_generate),
                               hyde)]
           out == multi_strategy_retrieval(cache, now, EngineQuery,
                                           MultiResults, env) IN
       /\ cache' = out.cache
       /\ last' = Called("multi", MultiResults, cache, now, out)
       /\ UNCHANGED <<kb_version, now, route, agg, merge, tables, runs>>

NextEngine ==
    Tick \/ KbUpdate \/ CallStandard \/ CallExpansion \/ CallHyde \/ CallMulti

Spec == InitEngine /\ [][NextEngine]_vars

(* Expansion: query_expansion called on its own, with what it was given kept *)

\* What bedrock_client.invoke_model can do for generate_expanded_queries: it
\* raises, returns one paraphrase, returns empty text, or returns the
\* original query followed by a paraphrase
ExpansionGenerateOutcomes ==
    GenerateOutcomes
       \cup {[ok |-> TRUE, lines |-> << >>],
             [ok |-> TRUE, lines |-> <<EngineQuery, Paraphrase>>]}

\* One call of query_expansion; last keeps the expanded queries, what each
\* retrieve call would do, the queries retrieve was called with and the
\* result
RunExpansion ==
    \E generate \in (IF Hit("expansion", DirectResults) THEN {GenerateRaises}
                     ELSE ExpansionGenerateOutcomes) :
    \E oks \in ExpansionChoices(DirectResults, generate) :
       LET expanded_queries == generate_expanded_queries(EngineQuery, generate)
           retrieves == ExpansionRetrieves(generate, oks)
           out == query_expansion(cache, now, EngineQuery, DirectResults,
                                  generate, retrieves) IN
       /\ cache' = out.cache
       /\ last' = [phase |-> "expanded",
                   hit |-> Hit("expansion", DirectResults), at |-> now,
                   expanded_queries |-> expanded_queries,
                   retrieves |-> retrieves,
                   retrieved |-> SubSeq(expanded_queries, 1, out.gw),
                   result |-> out.result]
       /\ UNCHANGED <<kb_version, now, route, agg, merge, tables, runs>>

NextExpansion == Tick \/ KbUpdate \/ RunExpansion

SpecExpansion == InitEngine /\ [][NextExpansion]_vars

\* The call kept in last ran the expansion (it was not served from the cache)
ExpansionRan == last.phase = "expanded" /\ ~last.hit

\* C26 as stated: in Expansion, the failure of the retrieve call for one
\* paraphrase does not abort the aggregation: the contexts retrieved for the
\* other queries are still merged into the result, and only the failing
\* query contributes nothing.
C26_Original ==
    ExpansionRan =>
       last.result.contexts
          = TopContexts(Deduplicate(ExtendContexts(last.retrieves,
                                                   Len(last.expanded_queries))),
                        DirectResults)

\* C27 as stated: the list of queries Expansion retrieves with always
\* contains the original query text, whether paraphrase generation
\* succeeds, returns empty text or fails; hence every Expansion run issues at
\* least one retrieve call with the original query.
C27_Original ==
    ExpansionRan =>
       /\ \E i \in DOMAIN last.expanded_queries :
             last.expanded_queries[i] = EngineQuery
       /\ \E i \in DOMAIN last.retrieved : last.retrieved[i] = EngineQuery

(* Relationship: relationship_retrieval *)

\* The five queries built from the table name (each f-string as its pieces)
RelationshipQueries(table_name) ==
    << <<"relationships of ", table_name, " table">>,
       <<table_name, " foreign keys">>,
       <<"tables that reference ", table_name>>,
       <<table_name, " primary key">>,
       <<table_name, " table schema relationships">> >>

\* 'numberOfResults': num_results // len(queries) + 1
NumberOfResults(num_results, queries) == num_results \div Len(queries) + 1

\* The retrievalResults of the knowledge base for one of the queries, at most
\* numberOfResults of them: one context only this query finds and two that
\* every query finds
RelationshipResults(query, numberOfResults) ==
    Prefix(<<[content |-> query, score |-> 60 + Len(query)],
             [content |-> <<"s">>, score |-> 50],
             [content |-> <<"t">>, score |-> 40]>>,
           numberOfResults)

\* The text generate_relationship_analysis returns when the model call raises
AnalysisError == "Error generating relationship analysis"

\* generate_relationship_analysis: the model's text, or the error text
generate_relationship_analysis(analysis_ok) ==
    IF analysis_ok THEN "analysis" ELSE AnalysisError

\* The result dict of relationship_retrieval
RelationshipResult(contexts, relationship_analysis, error) ==
    [retrieval_method |-> "relationship", contexts |-> contexts,
     relationship_analysis |-> relationship_analysis, error |-> error]

RECURSIVE RelationshipLoop(_, _, _, _, _)
\* The loop over the queries from the i-th on: the numberOfResults of the
\* retrieve calls made, the contexts collected and whether a call raised,
\* which ends the loop
RelationshipLoop(queries, i, num_results, oks, acc) ==
    IF i > Len(queries) THEN acc
    ELSE LET n == NumberOfResults(num_results, queries)
             asked == [acc EXCEPT !.requested = Append(@, n)] IN
         IF ~oks[i] THEN [asked EXCEPT !.raised = TRUE]
         ELSE RelationshipLoop(queries, i + 1, num_results, oks,
                 [asked EXCEPT !.all_contexts =
                     @ \o ContextsOf([retrievalResults |->
                                         RelationshipResults(queries[i], n)])])

\* relationship_retrieval; oks[i] tells whether the i-th kb_client.retrieve
\* returns, analysis_ok whether the model call does
relationship_retrieval(c, t, table_name, num_results, oks, analysis_ok) ==
    LET cache_key == generate_cache_key(table_name, num_results, "relationship")
        queries == RelationshipQueries(table_name)
        loop == RelationshipLoop(queries, 1, num_results, oks,
                   [requested |-> << >>, all_contexts |-> << >>, raised |-> FALSE])
        sorted_contexts == TopContexts(Deduplicate(loop.all_contexts), num_results)
        result == RelationshipResult(sorted_contexts,
                     generate_relationship_analysis(analysis_ok), FALSE) IN
    IF IsFresh(c, cache_key, t)
    THEN [result |-> c[cache_key].result, cache |-> c, requested |-> << >>]
    ELSE IF loop.raised
    THEN [result |-> RelationshipResult(<< >>, "", TRUE), cache |-> c,
          requested |-> loop.requested]
    ELSE [result |-> result, cache |-> CachePut(c, cache_key, result, t),
          requested |-> loop.requested]

(* Inputs of relationship_retrieval *)

TableName == "orders"
\* The num_results a call is made with (10 is the default)
RelationshipCounts == {5, 7, 10}

\* One call of relationship_retrieval; last keeps the call, the
\* numberOfResults of the retrieve calls it made, and its result
CallRelationship ==
    \E num_results \in RelationshipCounts :
       LET hit == IsFresh(cache, generate_cache_key(TableName, num_results,
                                                    "relationship"), now) IN
       \E oks \in (IF hit THEN {[i \in 1 .. 5 |-> TRUE]}
                   ELSE [1 .. 5 -> BOOLEAN]) :
       \E analysis_ok \in (IF hit \/ \E i \in 1 .. 5 : ~oks[i] THEN {TRUE}
                           ELSE BOOLEAN) :
          LET out == relationship_retrieval(cache, now, TableName, num_results,
                                            oks, analysis_ok) IN
          /\ cache' = out.cache
          /\ last' = [phase |-> "relationship", num_results |-> num_results,
                      hit |-> hit, at |-> now, requested |-> out.requested,
                      result |-> out.result]
          /\ UNCHANGED <<kb_version, now, route, agg, merge, tables, runs>>

NextRelationship == Tick \/ CallRelationship

SpecRelationship == InitEngine /\ [][NextRelationship]_vars

\* k / n rounded up
RoundedUp(k, n) == (k + n - 1) \div n

\* C30 as stated: relationship_retrieval with requested count k issues
\* exactly five retrieve calls, one per fixed template, each requesting k / 5
\* rounded up results (2 for k = 10, 1 for k = 5), and returns at most k
\* contexts (stated for calls that were not served from the cache and in
\* which no retrieve call raised).
C30_Original ==
    (last.phase = "relationship" /\ ~last.hit /\ ~last.result.error) =>
       /\ Len(last.requested) = 5
       /\ \A i \in DOMAIN last.requested :
             last.requested[i] = RoundedUp(last.num_results, 5)
       /\ Len(last.result.contexts) <= last.num_results

-----------------------------------------------------------------------------------------------------------------------------------------------------
(* Engine claims *)

\* A step in which a strategy was called: every call records itself in last,
\* and a call that changes neither last nor the cache is a stuttering step
CallStep == <<cache, last>>' # <<cache, last>>

\* The entry the call of this step finds under its key was stored less than
\* cache_ttl seconds ago
StoredInTime ==
    /\ last'.key \in DOMAIN cache
    /\ now - cache[last'.key].timestamp < cache_ttl

\* The cache after the call of this step stored its result under its key
CacheWithResult ==
    [k \in DOMAIN cache \cup {last'.key} |->
        IF k = last'.key THEN [result |-> last'.result, timestamp |-> now]
        ELSE cache[k]]

\* C1 as stated: a call with the key of the call before it, made less than
\* cache_ttl seconds after it, makes no retrieve call and returns the same
\* result; a call that finds an entry at least cache_ttl seconds old makes a
\* retrieve call and overwrites the entry with its result.
C1_Original ==
    [][CallStep =>
         /\ (last.phase = "called" /\ last.key = last'.key
                /\ now - last.at < cache_ttl)
               => (last'.gw = 0 /\ last'.result = last.result)
         /\ (last'.key \in DOMAIN cache /\ ~StoredInTime)
               => (last'.gw >= 1 /\ cache' = CacheWithResult)]_vars

\* C1 amended: a call that finds an entry stored less than cache_ttl seconds
\* ago makes no retrieve call, returns the stored result and leaves the cache
\* as it is.  Any other call computes afresh: a Standard or HyDE call makes
\* exactly one retrieve call and an Expansion call at least one, and each
\* stores its result under its key only if no retrieve call raised (the cache
\* is left as it is otherwise); a multi-strategy call always stores its
\* result under its own key, whatever number of retrieve calls its three
\* strategies needed.
C1_CacheContract ==
    [][CallStep =>
         /\ StoredInTime
               => (last'.gw = 0 /\ last'.result = cache[last'.key].result
                     /\ cache' = cache)
         /\ (~StoredInTime /\ last'.method \in {"standard", "hyde"})
               => last'.gw = 1
         /\ (~StoredInTime /\ last'.method = "expansion")
               => last'.gw >= 1
         /\ (~StoredInTime /\ last'.method # "multi")
               => cache' = IF last'.result.error THEN cache ELSE CacheWithResult
         /\ (~StoredInTime /\ last'.method = "multi")
               => (/\ cache'[last'.key] =
                         [result |-> last'.result, timestamp |-> now]
                   /\ \A k \in DOMAIN cache' :
                         k # last'.key =>
                            (k \notin DOMAIN cache
                                \/ cache'[k] = cache[k]
                                \/ cache'[k].timestamp = now))]_vars

\* C1 witness: a call found an entry at least cache_ttl seconds old, made a
\* retrieve call that succeeded and overwrote the entry with its result
C1_Witness ==
    /\ last.phase = "called" /\ last.found = "stale" /\ last.gw >= 1
    /\ now >= cache_ttl
    /\ cache[last.key] = [result |-> last.result, timestamp |-> now]
    /\ last.method = "standard" /\ ~last.result.error

\* C29 as stated: a cache entry is written only for a computation in
\* which no retrieve or model call failed: after any sequence of strategy
\* calls no cache entry holds the context of the mock fallback.
C29_Original ==
    \A k \in DOMAIN cache :
       \A i \in DOMAIN cache[k].result.contexts :
          cache[k].result.contexts[i].content # MockContent

-----
(* Merger: multi_kb_query *)

\* The excerpt length of  secondary['answer'][:200]
ExcerptLen == 200

\* "\n\n**Related Information:**\n"
RelatedHeader ==
    <<"\n","\n","*","*","R","e","l","a","t","e","d"," ","I","n","f","o","r",
      "m","a","t","i","o","n",":","*","*","\n">>

\* "\n*From "
FromLabel == <<"\n","*","F","r","o","m"," ">>

\* ":* "
LabelEnd == <<":","*"," ">>

\* "..."
Ellipsis == <<".",".",".">>

\* The characters of a source type
TypeText(type) ==
    CASE type = "database" -> <<"d","a","t","a","b","a","s","e">>
      [] type = "support" -> <<"s","u","p","p","o","r","t">>
      [] type = "documentation" ->
            <<"d","o","c","u","m","e","n","t","a","t","i","o","n">>

\* str.title(): a letter is upper-cased when no letter precedes it and
\* lower-cased otherwise
Title(text) ==
    [i \in DOMAIN text |->
        IF IsLetter(text[i])
        THEN IF i = 1 \/ ~IsLetter(text[i - 1])
             THEN UpperChar(text[i]) ELSE LowerChar(text[i])
        ELSE text[i]]

\* Mutant: the excerpt is not cut
SecondarySectionUncut(secondary) ==
    FromLabel \o Title(TypeText(secondary.source_type)) \o LabelEnd
        \o secondary.answer \o Ellipsis

\* f"\n*From {source_name}:* {secondary['answer'][:200]}..."
SecondarySection(secondary) ==
    FromLabel \o Title(TypeText(secondary.source_type)) \o LabelEnd
        \o Prefix(secondary.answer, ExcerptLen) \o Ellipsis

RECURSIVE SecondaryInfoFrom(_, _)
\* for secondary in secondary_results: secondary_info += ...
SecondaryInfoFrom(secondary_results, secondary_info) ==
    IF secondary_results = << >> THEN secondary_info
    ELSE SecondaryInfoFrom(Tail(secondary_results),
                           secondary_info \o SecondarySection(Head(secondary_results)))

SecondaryInfo(secondary_results) ==
    SecondaryInfoFrom(secondary_results, RelatedHeader)

\* [r for r in results if not r.get('is_secondary', False)]
PrimaryResults(results) ==
    LET IsPrimary(r) == ~r.is_secondary IN SelectSeq(results, IsPrimary)

\* [r for r in results if r.get('is_secondary', False)]
SecondaryResults(results) ==
    LET IsSecondary(r) == r.is_secondary IN SelectSeq(results, IsSecondary)

\* Mutant: the base is always the first result
MergeResultsFirst(results) ==
    IF Len(results) = 1 THEN results[1]
    ELSE IF SecondaryResults(results) # << >> /\ PrimaryResults(results) # << >>
         THEN [results[1] EXCEPT
                 !.answer = @ \o SecondaryInfo(SecondaryResults(results))]
         ELSE results[1]

\* The merge of the results into primary_result
MergeResults(results) ==
    IF Len(results) = 1 THEN results[1]
    ELSE LET primary_results == PrimaryResults(results)
             secondary_results == SecondaryResults(results) IN
         IF primary_results # << >>
         THEN IF secondary_results # << >>
              THEN [primary_results[1] EXCEPT
                      !.answer = @ \o SecondaryInfo(secondary_results)]
              ELSE primary_results[1]
         ELSE results[1]

Digits == <<"0","1","2","3","4","5","6","7","8","9">>

\* The answer text of the i-th target's advanced_rag_query, n characters
\* long; the characters vary with the position
AnswerText(i, n) ==
    [p \in 1 .. n |-> IF p % 7 = 1 THEN Digits[i + 1] ELSE Digits[(p % 10) + 1]]

\* Length of a short and of a long answer
ShortLen == 3
LongLen == 230

\* What querying one target can do: get_retrieval_client_for_kb returns None,
\* advanced_rag_query raises, or it returns an answer
Outcomes == {"no_client", "raises", "short", "long"}

OutcomeAnswer(i, outcome) ==
    AnswerText(i, IF outcome = "short" THEN ShortLen ELSE LongLen)

\* Mutant: one target that cannot be queried empties the results
QueryTargetsAbort(targets, outcomes, i) ==
    IF \E j \in i .. Len(targets) : outcomes[j] \in {"no_client", "raises"}
    THEN << >>
    ELSE [j \in 1 .. (Len(targets) - i + 1) |->
            [answer |-> OutcomeAnswer(j + i - 1, outcomes[j + i - 1]),
             source_type |-> targets[j + i - 1].type,
             kb_id |-> targets[j + i - 1].kbId,
             is_secondary |-> targets[j + i - 1].secondary]]

RECURSIVE QueryTargets(_, _, _)
\* for target in targets: ...  (results so far; targets from position i on)
QueryTargets(targets, outcomes, i) ==
    IF i > Len(targets) THEN << >>
    ELSE IF outcomes[i] \in {"no_client", "raises"}
    THEN QueryTargets(targets, outcomes, i + 1)
    ELSE <<[answer |-> OutcomeAnswer(i, outcomes[i]),
            source_type |-> targets[i].type,
            kb_id |-> targets[i].kbId,
            is_secondary |-> targets[i].secondary]>>
         \o QueryTargets(targets, outcomes, i + 1)

\* raise HTTPException(code, detail) inside the try block: caught by
\* `except Exception` and raised again with status 500
RaiseInTry(code, detail) ==
    [status_code |-> 500, detail |-> detail, raised_status |-> code,
     answer |-> << >>]

\* return APIResponse(answer=...): nothing was raised
Respond(answer) ==
    [status_code |-> 200, detail |-> None, raised_status |-> 0,
     answer |-> answer]

\* get_application_kbs returned None (no active application row)
NoApplication ==
    [databaseKnowledgeBaseId |-> None, supportKnowledgeBaseId |-> None,
     documentationKnowledgeBaseId |-> None]

\* Mutant: a request with a user context is classified even when it carries
\* explicit targets
TargetSourceContextFirst(request, app_kbs) ==
    IF request.userContext # None
    THEN IF app_kbs = NoApplication THEN "app_not_found" ELSE "classified"
    ELSE IF Len(request.queryTargets) > 0 THEN "explicit" ELSE "single"

\* Target resolution: "explicit", "classified", "app_not_found" or "single";
\* a queryTargets of None and an empty list are both the empty sequence
TargetSource(request, app_kbs) ==
    IF Len(request.queryTargets) > 0
    THEN "explicit"
    ELSE IF request.userContext # None
    THEN IF app_kbs = NoApplication THEN "app_not_found" ELSE "classified"
    ELSE "single"

\* request.queryMode or 'smart'
EffectiveMode(queryMode) == IF Truthy(queryMode) THEN queryMode ELSE "smart"

ResolveTargets(request, app_kbs) ==
    IF TargetSource(request, app_kbs) = "explicit" THEN request.queryTargets
    ELSE IF TargetSource(request, app_kbs) = "classified"
    THEN classify_query_and_get_targets(request.query_text, app_kbs,
                                        EffectiveMode(request.queryMode))
    ELSE << >>

\* query_knowledge_base on the module's default client (no queryTargets)
query_knowledge_base(outcome) ==
    IF outcome = "no_client"
    THEN RaiseInTry(500, "Service initialization failed")
    ELSE IF outcome = "raises" THEN RaiseInTry(500, "error")
    ELSE Respond(OutcomeAnswer(0, outcome))

\* The body of multi_kb_query once the targets are resolved; queried lists
\* the targets the loop asked a client for
QueryAndMerge(targets, outcomes) ==
    LET results == QueryTargets(targets, outcomes, 1) IN
    IF targets = << >>
    THEN [results |-> << >>, queried |-> << >>,
          response |-> RaiseInTry(400, "No knowledge base targets available for this query")]
    ELSE IF results = << >>
    THEN [results |-> results, queried |-> targets,
          response |-> RaiseInTry(500, "No knowledge bases could be queried")]
    ELSE [results |-> results, queried |-> targets,
          response |-> Respond(MergeResults(results).answer)]

\* multi_kb_query; classified tells whether classify_query_and_get_targets
\* was called, single whether the request went to query_knowledge_base
multi_kb_query(request, app_kbs, outcomes) ==
    LET source == TargetSource(request, app_kbs)
        route_info == [classified |-> source = "classified",
                       single |-> source = "single"] IN
    IF source = "app_not_found"
    THEN [results |-> << >>, queried |-> << >>, route_info |-> route_info,
          response |-> RaiseInTry(400, "Application not found or has no knowledge bases configured")]
    ELSE IF source = "single"
    THEN [results |-> << >>, queried |-> << >>, route_info |-> route_info,
          response |-> query_knowledge_base(outcomes[1])]
    ELSE LET out == QueryAndMerge(ResolveTargets(request, app_kbs), outcomes) IN
         [results |-> out.results, queried |-> out.queried,
          route_info |-> route_info, response |-> out.response]

(* Inputs of the Merger *)

\* Longest explicit target list
MaxTargets == 3

ExplicitTargets ==
    [type : {"database", "support"}, kbId : {"KB-X"},
     secondary : {FALSE, TRUE}]

ExplicitTargetLists ==
    UNION {[1 .. n -> ExplicitTargets] : n \in 0 .. MaxTargets}

MergerQueryTexts ==
    { <<"t","a","b","l","e">>,
      <<"e","r","r","o","r">>,
      <<"e","r","r","o","r"," ","g","u","i","d","e">> }

\* QueryRequest: with explicit targets, or with a user context to classify
\* by, or with neither
Requests ==
    [queryTargets : ExplicitTargetLists \ {<< >>}, userContext : {None, "epic"},
     query_text : {<<"t","a","b","l","e">>}, queryMode : {"smart"}]
    \cup
    [queryTargets : ExplicitTargetLists \ {<< >>}, userContext : {None, "epic"},
     query_text : {<<"e","r","r","o","r"," ","g","u","i","d","e">>},
     queryMode : {"documentation"}]
    \cup
    [queryTargets : {<< >>}, userContext : {None, "epic"},
     query_text : MergerQueryTexts, queryMode : QueryModes \cup {None}]

InitMerger ==
    /\ merge \in [phase : {"request"}, request : Requests]
    /\ route = Idle /\ agg = Idle
    /\ cache = EmptyCache /\ kb_version = 1 /\ now = 0 /\ last = Idle /\ tables = Idle /\ runs = Idle

\* How many knowledge bases the request queries
CallCount(request, app_kbs) ==
    IF TargetSource(request, app_kbs) = "single" THEN 1
    ELSE Len(ResolveTargets(request, app_kbs))

\* An application with all three sources
FullApplication ==
    [databaseKnowledgeBaseId |-> "KB-DB", supportKnowledgeBaseId |-> "KB-SUP",
     documentationKnowledgeBaseId |-> "KB-DOC"]

\* One multi_kb_query request: app_kbs is what get_application_kbs answers
\* for the request's application (whether or not it is asked), the knowledge
\* bases answer outcomes
MultiKbQuery ==
    /\ merge.phase = "request"
    /\ \E app_kbs \in (IF merge.request.userContext = None
                       THEN {NoApplication}
                       ELSE IF Len(merge.request.queryTargets) > 0
                       THEN {NoApplication, FullApplication}
                       ELSE ApplicationKBs \cup {NoApplication}) :
       \E outcomes \in [1 .. CallCount(merge.request, app_kbs) -> Outcomes] :
          LET out == multi_kb_query(merge.request, app_kbs, outcomes) IN
          merge' = [phase |-> "done", request |-> merge.request,
                    app_kbs |-> app_kbs,
                    targets |-> ResolveTargets(merge.request, app_kbs),
                    outcomes |-> outcomes,
                    results |-> out.results, queried |-> out.queried,
                    classified |-> out.route_info.classified,
                    single |-> out.route_info.single,
                    response |-> out.response]
    /\ UNCHANGED <<route, agg, cache, kb_version, now, last, tables, runs>>

NextMerger == MultiKbQuery

SpecMerger == InitMerger /\ [][NextMerger]_vars

-----------------------------------------------------------------------------
(* Query: advanced_rag_query and generate_answer_from_contexts *)

\* The characters of the query text
EngineQueryText ==
    <<"s","h","o","w"," ","t","a","b","l","e","s">>

Whitespace == {" ", "\n", "\t"}

RECURSIVE LStrip(_)
LStrip(text) ==
    IF text # << >> /\ Head(text) \in Whitespace THEN LStrip(Tail(text)) ELSE text

RECURSIVE RStrip(_)
RStrip(text) ==
    IF text # << >> /\ text[Len(text)] \in Whitespace
    THEN RStrip(SubSeq(text, 1, Len(text) - 1)) ELSE text

\* str.strip()
Strip(text) == RStrip(LStrip(text))

\* [ctx.get('content', '').strip() for ctx in contexts if ctx.get('content')]
ContextTexts(contexts) ==
    LET HasContent(ctx) == ctx.content # << >>
        kept == SelectSeq(contexts, HasContent) IN
    [i \in DOMAIN kept |-> Strip(kept[i].content)]

\* "\n\n---\n\n"
ContextSeparator == <<"\n","\n","-","-","-","\n","\n">>

RECURSIVE JoinTexts(_)
\* "\n\n---\n\n".join(texts)
JoinTexts(texts) ==
    IF texts = << >> THEN << >>
    ELSE IF Len(texts) = 1 THEN texts[1]
    ELSE texts[1] \o ContextSeparator \o JoinTexts(Tail(texts))

\* The fixed parts of the answers that are not the model's text
NoInfoHead ==
    <<"I"," ","c","o","u","l","d","n","'","t"," ","f","i","n","d"," ","r",
      "e","l","e","v","a","n","t"," ","i","n","f","o","r","m","a","t","i",
      "o","n"," ","i","n"," ","t","h","e"," ","d","a","t","a","b","a","s",
      "e"," ","k","n","o","w","l","e","d","g","e"," ","b","a","s","e"," ",
      "f","o","r"," ","y","o","u","r"," ","q","u","e","r","y",":"," ",
      "'">>
NoInfoTail ==
    <<"'","."," ","P","l","e","a","s","e"," ","t","r","y"," ","r","e","p",
      "h","r","a","s","i","n","g"," ","y","o","u","r"," ","q","u","e","s",
      "t","i","o","n"," ","o","r"," ","c","h","e","c","k"," ","i","f"," ",
      "t","h","e"," ","t","o","p","i","c"," ","i","s"," ","c","o","v","e",
      "r","e","d"," ","i","n"," ","t","h","e"," ","d","o","c","u","m","e",
      "n","t","a","t","i","o","n",".">>
NoResponseHead ==
    <<"I"," ","f","o","u","n","d"," ","r","e","l","e","v","a","n","t"," ",
      "d","o","c","u","m","e","n","t","a","t","i","o","n"," ","b","u","t",
      " ","c","o","u","l","d","n","'","t"," ","g","e","n","e","r","a","t",
      "e"," ","a"," ","p","r","o","p","e","r"," ","r","e","s","p","o","n",
      "s","e","."," ","T","h","e"," ","r","e","t","r","i","e","v","e","d",
      " ","i","n","f","o","r","m","a","t","i","o","n"," ","c","o","n","t",
      "a","i","n","s",":"," ">>
BasedOnHead ==
    <<"B","a","s","e","d"," ","o","n"," ","t","h","e"," ","d","a","t","a",
      "b","a","s","e"," ","d","o","c","u","m","e","n","t","a","t","i","o",
      "n",","," ","h","e","r","e","'","s"," ","w","h","a","t"," ","I"," ",
      "f","o","u","n","d"," ","f","o","r"," ","y","o","u","r"," ","q","u",
      "e","r","y"," ","'">>
BasedOnMid == <<"'",":","\n","\n">>
ErrorHead ==
    <<"I"," ","e","n","c","o","u","n","t","e","r","e","d"," ","a","n"," ",
      "e","r","r","o","r"," ","w","h","i","l","e"," ","p","r","o","c","e",
      "s","s","i","n","g"," ","y","o","u","r"," ","q","u","e","r","y"," ",
      "'">>
ErrorTail ==
    <<"'","."," ","P","l","e","a","s","e"," ","t","r","y"," ","a","g","a",
      "i","n"," ","o","r"," ","r","e","p","h","r","a","s","e"," ","y","o",
      "u","r"," ","q","u","e","s","t","i","o","n",".">>

\* context_texts[:10], combined_contexts[:1000], context_texts[0][:2000]
TopTexts == 10
CombinedLen == 1000
FirstContextLen == 2000

\* Mutant: the model call of generate_answer_from_contexts is not guarded
generate_answer_unguarded(query_chars, context_texts, generator) ==
    IF context_texts = << >>
    THEN [raised |-> FALSE, answer |-> NoInfoHead \o query_chars \o NoInfoTail]
    ELSE IF generator.ok
    THEN [raised |-> FALSE, answer |-> Strip(generator.text)]
    ELSE [raised |-> TRUE, answer |-> << >>]

\* generate_answer_from_contexts; generator is what bedrock_client.invoke_model
\* does: it raises, or it returns a text.  get_relevant_corrections returns ""
generate_answer_from_contexts(query_chars, context_texts, generator) ==
    LET combined_contexts == JoinTexts(Prefix(context_texts, TopTexts)) IN
    IF context_texts = << >>
    THEN [raised |-> FALSE, answer |-> NoInfoHead \o query_chars \o NoInfoTail]
    ELSE IF generator.ok
    THEN [raised |-> FALSE,
          answer |-> IF Strip(generator.text) # << >> THEN Strip(generator.text)
                     ELSE NoResponseHead \o Prefix(combined_contexts, CombinedLen)
                             \o Ellipsis]
    ELSE [raised |-> FALSE,
          answer |-> IF context_texts # << >>
                     THEN BasedOnHead \o query_chars \o BasedOnMid
                             \o Prefix(context_texts[1], FirstContextLen) \o Ellipsis
                     ELSE ErrorHead \o query_chars \o ErrorTail]

\* advanced_rag_query: multi_strategy_retrieval with its default num_results,
\* then the answer generated from the texts of its contexts
advanced_rag_query(c, t, query_text, env, generator) ==
    LET out == multi_strategy_retrieval(c, t, query_text, MultiResults, env)
        context_texts == ContextTexts(out.result.contexts)
        generated == generate_answer_from_contexts(EngineQueryText, context_texts,
                                                   generator) IN
    [raised |-> generated.raised, answer |-> generated.answer,
     retrieved_contexts |-> context_texts, cache |-> out.cache, gw |-> out.gw]

(* Inputs of the Query *)

\* What bedrock_client.invoke_model can do for generate_answer_from_contexts:
\* raise, or return an empty, a blank or a proper text
GeneratorOutcomes ==
    {[ok |-> FALSE, text |-> << >>],
     [ok |-> TRUE, text |-> << >>],
     [ok |-> TRUE, text |-> <<" ","\n">>],
     [ok |-> TRUE, text |-> <<" ","S","E","L","E","C","T"," ","1","\n">>]}

\* Number of advanced_rag_query calls made on the engine
MaxQueryCalls == 2

InitQuery ==
    /\ cache = EmptyCache /\ kb_version \in 1 .. MaxKbVersion
    /\ now = 0 /\ last = Idle /\ tables = Idle /\ runs = Idle
    /\ route = Idle /\ agg = Idle /\ merge = Idle

\* One advanced_rag_query call; last records the call: what it handed back,
\* and which of the external calls it made raised
AdvancedRagQuery ==
    LET per_method == results_per_method(MultiResults)
        hit == Hit("multi", MultiResults)
        calls == IF last.phase = "idle" THEN 0 ELSE last.calls IN
    /\ calls < MaxQueryCalls
    /\ \E standard \in (IF hit THEN {FALSE} ELSE RetrieveChoices("standard", per_method)) :
       \E generate \in (IF hit THEN {GenerateRaises} ELSE GenerateChoices(per_method)) :
       \E expansion \in (IF hit THEN {[i \in 1 .. MaxExpanded |-> FALSE]}
                         ELSE ExpansionChoices(per_method, generate)) :
       \E hyde_generate \in (IF hit THEN {FALSE} ELSE HydeGenerateChoices(per_method)) :
       \E hyde \in (IF hit THEN {FALSE} ELSE RetrieveChoices("hyde", per_method)) :
       \E generator \in GeneratorOutcomes :
          LET env == [standard |-> Retrieve(kb_version, EngineQuery, standard),
                      generate |-> generate,
                      expansion |-> ExpansionRetrieves(generate, expansion),
                      hyde_generate |-> hyde_generate,
                      hyde |-> Retrieve(kb_version,
                                  generate_hypothetical_document(EngineQuery, hyde_generate),
                                  hyde)]
              out == advanced_rag_query(cache, now, EngineQuery, env, generator)
              computed == ~hit IN
          /\ cache' = out.cache
          /\ last' = [phase |-> "answered", calls |-> calls + 1,
                      raised |-> out.raised, answer |-> out.answer,
                      retrieved_contexts |-> out.retrieved_contexts,
                      gw |-> out.gw,
                      standard_raised |->
                          computed /\ ~Hit("standard", per_method) /\ ~standard,
                      all_retrieves_raised |->
                          /\ computed /\ ~standard /\ ~hyde
                          /\ \A i \in 1 .. MaxExpanded : ~expansion[i],
                      generator_raised |->
                          out.retrieved_contexts # << >> /\ ~generator.ok]
    /\ UNCHANGED <<kb_version, now, route, agg, merge, tables, runs>>

NextQuery == AdvancedRagQuery

SpecQuery == InitQuery /\ [][NextQuery]_vars

-----------------------------------------------------------------------------
(* Merger clients: the engine a multi_kb_query request queries a target with *)

\* create_retrieval_client(kb_id): a new AdvancedRetrieval, whose __init__
\* sets self.cache = {}; whatever engine an earlier request created for the
\* same kb_id is not looked up
create_retrieval_client(kb_id, earlier_cache) == EmptyCache

\* get_retrieval_client_for_kb
get_retrieval_client_for_kb(kb_id, earlier_cache) ==
    create_retrieval_client(kb_id, earlier_cache)

\* Successive multi_kb_query requests with the same query text and target
MaxRequests == 2

\* One multi_kb_query request queries its target: it gets a client for the
\* target's kbId and calls advanced_rag_query on it.  cache is the cache of
\* the engine the latest request used.
TargetQuery ==
    LET per_method == results_per_method(MultiResults)
        calls == IF last.phase = "idle" THEN 0 ELSE last.calls
        client_cache == get_retrieval_client_for_kb("KB-X", cache)
        fresh(method, num_results) ==
            IsFresh(client_cache,
                    generate_cache_key(EngineQuery, num_results, method), now)
        hit == fresh("multi", MultiResults) IN
    /\ calls < MaxRequests
    /\ \E standard \in (IF hit \/ fresh("standard", per_method)
                        THEN {FALSE} ELSE BOOLEAN) :
       \E generate \in (IF hit \/ fresh("expansion", per_method)
                        THEN {GenerateRaises} ELSE GenerateOutcomes) :
       \E expansion \in (IF hit \/ fresh("expansion", per_method)
                         THEN {[i \in 1 .. MaxExpanded |-> FALSE]}
                         ELSE {oks \in [1 .. MaxExpanded -> BOOLEAN] :
                                 \A i \in 1 .. MaxExpanded :
                                    i > Len(generate_expanded_queries(EngineQuery, generate))
                                       => ~oks[i]}) :
       \E hyde_generate \in (IF hit \/ fresh("hyde", per_method)
                             THEN {FALSE} ELSE BOOLEAN) :
       \E hyde \in (IF hit \/ fresh("hyde", per_method) THEN {FALSE} ELSE BOOLEAN) :
       \E generator \in GeneratorOutcomes :
          LET env == [standard |-> Retrieve(kb_version, EngineQuery, standard),
                      generate |-> generate,
                      expansion |-> ExpansionRetrieves(generate, expansion),
                      hyde_generate |-> hyde_generate,
                      hyde |-> Retrieve(kb_version,
                                  generate_hypothetical_document(EngineQuery, hyde_generate),
                                  hyde)]
              out == advanced_rag_query(client_cache, now, EngineQuery, env, generator) IN
          /\ cache' = out.cache
          /\ last' = [phase |-> "answered", calls |-> calls + 1, at |-> now,
                      gw |-> out.gw, answer |-> out.answer]
    /\ UNCHANGED <<kb_version, now, route, agg, merge, tables, runs>>

NextClients == TargetQuery

SpecClients == InitQuery /\ [][NextClients]_vars

\* C22 as stated: the cache outlives a request: of two successive
\* multi_kb_query requests with the same query text and the same target, the
\* second made within the TTL of the first, the second is served from the
\* cache and makes no retrieve call.
C22_Original ==
    [][(last.phase = "answered" /\ last'.calls = last.calls + 1
           /\ now - last.at < cache_ttl)
       => last'.gw = 0]_vars

-----------------------------------------------------------------------------
(* Correction Loop: FeedbackProcessor.process_pending_feedback *)

\* The tables are query_feedback (a row per Id, Ids in the order of
\* CreatedAt), training_data and kb_improvement_log (rows in the order of
\* their AUTO_INCREMENT Ids).  Each run has a connection of its own, with
\* autocommit off: a row it wrote and has not committed carries the run's
\* number (writer, tx), 0 once committed.

\* Mutant: the SELECT does not filter on FeedbackType
PendingAnyType(feedback, kb_id, company_id) ==
    LET Matches(i) ==
            /\ feedback[i].KnowledgeBaseId = kb_id
            /\ feedback[i].CompanyId = company_id
            /\ feedback[i].ProcessingStatus = "pending" IN
    SelectSeq([i \in 1 .. Len(feedback) |-> i], Matches)

\* SELECT * FROM query_feedback WHERE KnowledgeBaseId = %s AND CompanyId = %s
\*   AND ProcessingStatus = 'pending' AND FeedbackType = 'correction'
\*   ORDER BY CreatedAt ASC        (the Ids of the rows, committed data)
PendingFeedback(feedback, kb_id, company_id) ==
    LET Matches(i) ==
            /\ feedback[i].KnowledgeBaseId = kb_id
            /\ feedback[i].CompanyId = company_id
            /\ feedback[i].ProcessingStatus = "pending"
            /\ feedback[i].FeedbackType = "correction" IN
    SelectSeq([i \in 1 .. Len(feedback) |-> i], Matches)

\* Mutant: the INSERT is a REPLACE keyed on FeedbackId
ReplaceTrainingData(training_data, feedback_row, feedback_id, r) ==
    IF \E i \in DOMAIN training_data : training_data[i].FeedbackId = feedback_id
    THEN [i \in DOMAIN training_data |->
            IF training_data[i].FeedbackId = feedback_id
            THEN [training_data[i] EXCEPT !.KnowledgeBaseId = "replaced", !.tx = r]
            ELSE training_data[i]]
    ELSE Append(training_data,
                [Id |-> Len(training_data) + 1, FeedbackId |-> feedback_id,
                 CompanyId |-> feedback_row.CompanyId,
                 KnowledgeBaseId |-> feedback_row.KnowledgeBaseId, tx |-> r])

\* create_training_data: INSERT INTO training_data (FeedbackId, CompanyId,
\* KnowledgeBaseId, ...); the new row's Id is cursor.lastrowid
InsertTrainingData(training_data, feedback_row, feedback_id, r) ==
    Append(training_data,
           [Id |-> Len(training_data) + 1, FeedbackId |-> feedback_id,
            CompanyId |-> feedback_row.CompanyId,
            KnowledgeBaseId |-> feedback_row.KnowledgeBaseId, tx |-> r])

\* UPDATE query_feedback SET ProcessingStatus = 'reviewed', ... WHERE Id = %s
\* (written by run r, not yet committed)
UpdateReviewed(feedback, feedback_id, r) ==
    [feedback EXCEPT ![feedback_id].writer = r]

\* connection.commit() of run r: its writes become the committed data
CommitFeedback(feedback, r) ==
    [i \in DOMAIN feedback |->
        IF feedback[i].writer = r
        THEN [feedback[i] EXCEPT !.ProcessingStatus = "reviewed", !.writer = 0]
        ELSE feedback[i]]

CommitTrainingData(training_data, r) ==
    [i \in DOMAIN training_data |->
        IF training_data[i].tx = r THEN [training_data[i] EXCEPT !.tx = 0]
        ELSE training_data[i]]

\* Mutant: the row is created as already in progress
InsertImprovementLogInProgress(improvement_log, kb_id, company_id, training_data_ids) ==
    Append(improvement_log,
           [KnowledgeBaseId |-> kb_id, CompanyId |-> company_id,
            TrainingDataIds |-> training_data_ids, Status |-> "in_progress",
            IngestionJobId |-> None])

\* INSERT INTO kb_improvement_log (..., 'content_update', ..., 'planned')
InsertImprovementLog(improvement_log, kb_id, company_id, training_data_ids) ==
    Append(improvement_log,
           [KnowledgeBaseId |-> kb_id, CompanyId |-> company_id,
            TrainingDataIds |-> training_data_ids, Status |-> "planned",
            IngestionJobId |-> None])

\* generate_corrected_documentation: one document per training_data row
\* whose Id is in training_data_ids
CorrectedDocs(training_data, training_data_ids) ==
    LET Wanted(row) == \E k \in DOMAIN training_data_ids :
                          training_data_ids[k] = row.Id IN
    SelectSeq(training_data, Wanted)

\* What process_pending_feedback returns
ResultOf(status, processed_count, training_data_ids) ==
    [status |-> status, processed |-> processed_count,
     training_data_ids |-> training_data_ids]

\* A connection on which no call is running
NoRun ==
    [pc |-> "idle", calls |-> 0, kb_id |-> None, company_id |-> 0,
     pending_feedback |-> << >>, idx |-> 0, training_data_ids |-> << >>,
     processed_count |-> 0, reviewed |-> 0, improvement_log_id |-> 0,
     corrected_docs |-> << >>, result |-> ResultOf("none", 0, << >>)]

(* Inputs of the Correction Loop *)

\* Connections that call process_pending_feedback, calls made in all,
\* rows of query_feedback
MaxRuns == 2
MaxCalls == 3
MaxFeedback == 2

Runs == 1 .. MaxRuns
KbIds == {"KB-A", "KB-B"}
CompanyIds == {1}

FeedbackRows ==
    [KnowledgeBaseId : KbIds, CompanyId : CompanyIds,
     FeedbackType : {"correction", "rating"},
     ProcessingStatus : {"pending", "reviewed"}, writer : {0}]

InitLoop ==
    /\ tables \in [feedback : [1 .. MaxFeedback -> FeedbackRows],
                   training_data : {<< >>}, improvement_log : {<< >>}]
    /\ runs = [r \in Runs |-> NoRun]
    /\ route = Idle /\ agg = Idle /\ merge = Idle
    /\ cache = EmptyCache /\ kb_version = 1 /\ now = 0 /\ last = Idle

\* The row the loop of run r is at
CurrentFeedback(r) == runs[r].pending_feedback[runs[r].idx]

\* The loop of run r moves on to the next row, or leaves the loop
NextFeedback(run) ==
    IF run.idx < Len(run.pending_feedback)
    THEN [run EXCEPT !.idx = @ + 1, !.pc = "insert"]
    ELSE [run EXCEPT !.pc = "commit"]

RECURSIVE SumCalls(_)
SumCalls(r) == IF r = 0 THEN 0 ELSE runs[r].calls + SumCalls(r - 1)

\* Calls of process_pending_feedback made so far
CallsMade == SumCalls(MaxRuns)

\* process_pending_feedback is called: the SELECT, and the early return
\* when it finds no row
StartRun(r) ==
    /\ runs[r].pc \in {"idle", "done"}
    /\ CallsMade < MaxCalls
    /\ \E kb_id \in KbIds, company_id \in CompanyIds :
          LET pending_feedback ==
                  PendingFeedback(tables.feedback, kb_id, company_id)
              run == [NoRun EXCEPT !.calls = runs[r].calls + 1,
                                   !.kb_id = kb_id, !.company_id = company_id,
                                   !.pending_feedback = pending_feedback] IN
          runs' = [runs EXCEPT ![r] =
                     IF pending_feedback = << >>
                     THEN [run EXCEPT !.pc = "done",
                              !.result = ResultOf("no_pending_feedback", 0, << >>)]
                     ELSE [run EXCEPT !.pc = "insert", !.idx = 1]]
    /\ UNCHANGED <<tables, route, agg, merge, cache, kb_version, now, last>>

\* create_training_data for the current row: the INSERT succeeds, or it
\* raises and the loop continues with the next row
CreateTrainingData(r) ==
    /\ runs[r].pc = "insert"
    /\ \E ok \in BOOLEAN :
          IF ok
          THEN /\ tables' = [tables EXCEPT !.training_data =
                                InsertTrainingData(@, tables.feedback[CurrentFeedback(r)],
                                                   CurrentFeedback(r), r)]
               /\ runs' = [runs EXCEPT
                             ![r].training_data_ids =
                                 Append(@, Len(tables.training_data) + 1),
                             ![r].processed_count = @ + 1,
                             ![r].pc = "update"]
          ELSE /\ runs' = [runs EXCEPT ![r] = NextFeedback(@)]
               /\ UNCHANGED tables
    /\ UNCHANGED <<route, agg, merge, cache, kb_version, now, last>>

\* The UPDATE of the current row: it succeeds once no other connection holds
\* an uncommitted write of the row, or it raises (a lock wait timeout, or any
\* other error) and the loop continues with the next row
MarkReviewed(r) ==
    /\ runs[r].pc = "update"
    /\ \E ok \in BOOLEAN :
          IF ok
          THEN /\ tables.feedback[CurrentFeedback(r)].writer \in {0, r}
               /\ tables' = [tables EXCEPT !.feedback =
                                UpdateReviewed(@, CurrentFeedback(r), r)]
               /\ runs' = [runs EXCEPT ![r] =
                             NextFeedback([@ EXCEPT !.reviewed = @ + 1])]
          ELSE /\ UNCHANGED tables
               /\ runs' = [runs EXCEPT ![r] = NextFeedback(@)]
    /\ UNCHANGED <<route, agg, merge, cache, kb_version, now, last>>

\* connection.commit() after the loop; without training data the call
\* returns here
CommitRun(r) ==
    /\ runs[r].pc = "commit"
    /\ tables' = [tables EXCEPT
                    !.feedback = CommitFeedback(@, r),
                    !.training_data = CommitTrainingData(@, r)]
    /\ runs' = [runs EXCEPT ![r] =
                  IF runs[r].training_data_ids # << >>
                  THEN [@ EXCEPT !.pc = "log"]
                  ELSE [@ EXCEPT !.pc = "done",
                           !.result = ResultOf("success", runs[r].processed_count,
                                               runs[r].training_data_ids)]]
    /\ UNCHANGED <<route, agg, merge, cache, kb_version, now, last>>

\* The call ends with an exception, which main catches and logs
Raised(run) ==
    [run EXCEPT !.pc = "done",
                !.result = ResultOf("raised", run.processed_count,
                                    run.training_data_ids)]

\* The INSERT into kb_improvement_log and its commit; the statement is in no
\* try block, so when it raises the call ends there
LogImprovement(r) ==
    /\ runs[r].pc = "log"
    /\ \E ok \in BOOLEAN :
          IF ok
          THEN /\ tables' = [tables EXCEPT !.improvement_log =
                                InsertImprovementLog(@, runs[r].kb_id,
                                                     runs[r].company_id,
                                                     runs[r].training_data_ids)]
               /\ runs' = [runs EXCEPT
                             ![r].improvement_log_id =
                                 Len(tables.improvement_log) + 1,
                             ![r].pc = "ingest"]
          ELSE /\ runs' = [runs EXCEPT ![r] = Raised(@)]
               /\ UNCHANGED tables
    /\ UNCHANGED <<route, agg, merge, cache, kb_version, now, last>>

\* generate_corrected_documentation (its SELECT is in no try block either),
\* update_knowledge_base_with_corrections, which is handed the documents and
\* returns an ingestion job id, or None when it raised, the UPDATE of the
\* log row and the return
Ingest(r) ==
    /\ runs[r].pc = "ingest"
    /\ \E ok \in BOOLEAN :
          IF ok
          THEN \E ingestion_job_id \in {None, "job"} :
                  LET corrected_docs == CorrectedDocs(tables.training_data,
                                                      runs[r].training_data_ids) IN
                  /\ tables' = IF corrected_docs # << >> /\ ingestion_job_id # None
                               THEN [tables EXCEPT
                                       !.improvement_log[runs[r].improvement_log_id] =
                                           [@ EXCEPT !.Status = "in_progress",
                                                     !.IngestionJobId = ingestion_job_id]]
                               ELSE tables
                  /\ runs' = [runs EXCEPT
                                ![r].pc = "done",
                                ![r].corrected_docs = corrected_docs,
                                ![r].result = ResultOf("success",
                                                       runs[r].processed_count,
                                                       runs[r].training_data_ids)]
          ELSE /\ runs' = [runs EXCEPT ![r] = Raised(@)]
               /\ UNCHANGED tables
    /\ UNCHANGED <<route, agg, merge, cache, kb_version, now, last>>

NextLoop ==
    \E r \in Runs :
       \/ StartRun(r) \/ CreateTrainingData(r) \/ MarkReviewed(r)
       \/ CommitRun(r) \/ LogImprovement(r) \/ Ingest(r)

SpecLoop == InitLoop /\ [][NextLoop]_vars

-----------------------------------------------------------------------------
(* Cache accesses: standard_query calls on one key, one dict access a step *)

\* The key all callers use
RaceKey == generate_cache_key(EngineQuery, DirectResults, "standard")

\* A caller that is in no call, has read no entry and holds no result
NoCaller ==
    [pc |-> "idle", calls |-> 0,
     observed |-> [result |-> StrategyResult("none", << >>, FALSE),
                   timestamp |-> -1],
     result |-> StrategyResult("none", << >>, FALSE)]

\* Clock readings
RaceTimes == {0, 1, cache_ttl + 1}

InitRace ==
    /\ runs = [c \in Runs |-> NoCaller]
    /\ cache = EmptyCache /\ kb_version = 1 /\ now = 0
    /\ last = [phase |-> "race", written |-> {}]
    /\ route = Idle /\ agg = Idle /\ merge = Idle /\ tables = Idle

RaceClock ==
    /\ \E t \in RaceTimes : t > now /\ now' = t
    /\ UNCHANGED <<cache, kb_version, last, route, agg, merge, tables, runs>>

RaceKbUpdate ==
    /\ kb_version < MaxKbVersion
    /\ kb_version' = kb_version + 1
    /\ UNCHANGED <<cache, now, last, route, agg, merge, tables, runs>>

\* standard_query is called:  cache_key in self.cache
TestMember(c) ==
    /\ runs[c].pc \in {"idle", "done"}
    /\ CallsMade < MaxCalls
    /\ runs' = [runs EXCEPT ![c] =
                  [NoCaller EXCEPT
                     !.calls = runs[c].calls + 1,
                     !.pc = IF RaceKey \in DOMAIN cache THEN "stamp"
                            ELSE "retrieve"]]
    /\ UNCHANGED <<cache, kb_version, now, last, route, agg, merge, tables>>

\* time.time() - self.cache[cache_key]['timestamp'] < self.cache_ttl
\* (a KeyError when the entry is gone)
ReadStamp(c) ==
    /\ runs[c].pc = "stamp"
    /\ runs' = [runs EXCEPT ![c].pc =
                  IF RaceKey \notin DOMAIN cache THEN "keyerror"
                  ELSE IF now - cache[RaceKey].timestamp < cache_ttl THEN "read"
                  ELSE "retrieve"]
    /\ UNCHANGED <<cache, kb_version, now, last, route, agg, merge, tables>>

\* return self.cache[cache_key]['result']  (a KeyError when the entry is gone)
ReadResult(c) ==
    /\ runs[c].pc = "read"
    /\ runs' = [runs EXCEPT ![c] =
                  IF RaceKey \notin DOMAIN cache
                  THEN [@ EXCEPT !.pc = "keyerror"]
                  ELSE [@ EXCEPT !.pc = "done",
                                 !.observed = cache[RaceKey],
                                 !.result = cache[RaceKey].result]]
    /\ UNCHANGED <<cache, kb_version, now, last, route, agg, merge, tables>>

\* kb_client.retrieve and the result built from it, or the mock result
\* returned when it raises
RetrieveStep(c) ==
    /\ runs[c].pc = "retrieve"
    /\ \E ok \in BOOLEAN :
          LET out == standard_query(EmptyCache, now, EngineQuery, DirectResults,
                                    Retrieve(kb_version, EngineQuery, ok)) IN
          runs' = [runs EXCEPT ![c].result = out.result,
                               ![c].pc = IF ok THEN "write" ELSE "done"]
    /\ UNCHANGED <<cache, kb_version, now, last, route, agg, merge, tables>>

\* self.cache[cache_key] = {'result': result, 'timestamp': time.time()};
\* last.written keeps every pair a computation has written
WriteEntry(c) ==
    /\ runs[c].pc = "write"
    /\ cache' = CachePut(cache, RaceKey, runs[c].result, now)
    /\ last' = [last EXCEPT !.written =
                  @ \cup {[result |-> runs[c].result, timestamp |-> now]}]
    /\ runs' = [runs EXCEPT ![c].pc = "done"]
    /\ UNCHANGED <<kb_version, now, route, agg, merge, tables>>

NextRace ==
    \/ RaceClock
    \/ RaceKbUpdate
    \/ \E c \in Runs :
          \/ TestMember(c) \/ ReadStamp(c) \/ ReadResult(c)
          \/ RetrieveStep(c) \/ WriteEntry(c)

SpecRace == InitRace /\ [][NextRace]_vars

\* C28: under any interleaving of the cache accesses of concurrent
\* standard_query calls on one key, every entry in the cache, and every entry
\* a reader has read, is a complete (result, timestamp) pair written by one
\* computation; a reader that found the key never finds it missing at its
\* freshness check or at its read, and returns the result of the entry it
\* read.
C28_EntriesWhole ==
    /\ \A k \in DOMAIN cache : cache[k] \in last.written
    /\ \A c \in Runs :
          /\ runs[c].pc # "keyerror"
          /\ runs[c].pc \in {"stamp", "read"} => RaceKey \in DOMAIN cache
          /\ (runs[c].pc = "done" /\ runs[c].observed.timestamp >= 0) =>
                /\ runs[c].observed \in last.written
                /\ runs[c].result = runs[c].observed.result

\* C28 witness: a reader has read an entry that a later write has since
\* replaced by a pair with another result
C28_Witness ==
    /\ Cardinality(last.written) >= 2
    /\ \E c \in Runs :
          /\ runs[c].pc = "done" /\ runs[c].observed.timestamp >= 0
          /\ runs[c].observed # cache[RaceKey]
          /\ runs[c].observed.result # cache[RaceKey].result

-----------------------------------------------------------------------------
(* Query claims, checked under SpecQuery *)

\* An advanced_rag_query call has returned
Answered == last.phase = "answered"

\* C15: for every combination of Gateway and Generator failures, all calls
\* failing included, advanced_rag_query propagates no exception and returns
\* a non-empty answer string; a Gateway failure in the Standard strategy is
\* absorbed into an explanatory fallback context, which is among the
\* contexts the answer is generated from.
C15_NeverRaisesNeverEmpty ==
    Answered =>
       /\ ~last.raised
       /\ Len(last.answer) > 0
       /\ last.standard_raised =>
             \E i \in DOMAIN last.retrieved_contexts :
                last.retrieved_contexts[i] = <<"m","o","c","k">>

\* C15 witness: every retrieve call and the answer generation raised, and
\* the answer is built from the fallback context
C15_Witness ==
    /\ Answered
    /\ last.all_retrieves_raised /\ last.standard_raised /\ last.generator_raised
    /\ last.retrieved_contexts = << <<"m","o","c","k">> >>
    /\ ~last.raised /\ Len(last.answer) > Len(BasedOnHead)

-----------------------------------------------------------------------------
(* Merger claims, checked under SpecMerger *)

MergeDone == merge.phase = "done"

\* The label a section carries for a source type
TypeLabel(type) ==
    CASE type = "database" -> <<"D","a","t","a","b","a","s","e">>
      [] type = "support" -> <<"S","u","p","p","o","r","t">>
      [] type = "documentation" ->
            <<"D","o","c","u","m","e","n","t","a","t","i","o","n">>

\* Positions of the results that are not secondary / are secondary
PrimaryPositions == {i \in DOMAIN merge.results : ~merge.results[i].is_secondary}
SecondaryPositions == {i \in DOMAIN merge.results : merge.results[i].is_secondary}

SetMin(S) == CHOOSE x \in S : \A y \in S : x <= y

\* The section expected for one secondary result: its label and the first
\* 200 characters of its answer (all of it when shorter)
ExpectedSection(r) ==
    <<"\n","*","F","r","o","m"," ">> \o TypeLabel(r.source_type) \o <<":","*"," ">>
        \o [i \in 1 .. (IF Len(r.answer) < 200 THEN Len(r.answer) ELSE 200) |->
               r.answer[i]]
        \o <<".",".",".">>

RECURSIVE ExpectedSections(_)
\* The sections expected for the secondary results from position i on
ExpectedSections(i) ==
    IF i > Len(merge.results) THEN << >>
    ELSE (IF merge.results[i].is_secondary
          THEN ExpectedSection(merge.results[i]) ELSE << >>)
         \o ExpectedSections(i + 1)

\* C3: when a primary result and one or more secondary results exist, the
\* merged answer begins with the (first) primary's answer in full and
\* unmodified, and holds after it, for each secondary result in turn, one
\* section labelled with that secondary's source type and holding the first
\* 200 characters of its answer (never more).
C3_PrimaryPlusExcerpts ==
    (MergeDone /\ PrimaryPositions # {} /\ SecondaryPositions # {}) =>
      LET base == merge.results[SetMin(PrimaryPositions)].answer
          answer == merge.response.answer IN
      /\ merge.response.status_code = 200
      /\ SubSeq(answer, 1, Len(base)) = base
      /\ SubSeq(answer, Len(base) + 1, Len(answer)) =
            RelatedHeader \o ExpectedSections(1)

C3_Witness ==
    /\ MergeDone
    /\ Len(merge.results) = 3
    /\ merge.results[1].is_secondary /\ Len(merge.results[1].answer) > 200
    /\ ~merge.results[2].is_secondary /\ Len(merge.results[2].answer) > 200
    /\ merge.results[3].is_secondary /\ Len(merge.results[3].answer) < 200
    /\ merge.results[1].source_type # merge.results[3].source_type
    /\ Len(merge.response.answer) > Len(merge.results[2].answer) + 200

\* Targets whose call succeeded, and the non-secondary ones among them
Succeeded == {i \in DOMAIN merge.targets : merge.outcomes[i] \in {"short", "long"}}
SucceededPrimary == {i \in Succeeded : ~merge.targets[i].secondary}

\* The target whose answer is to be the base
BaseTarget ==
    IF SucceededPrimary # {} THEN SetMin(SucceededPrimary) ELSE SetMin(Succeeded)

\* C4: for any order of targets and any subset of targets whose call
\* succeeded, the base of the merged answer is the first successful
\* non-secondary result in target order; if no non-secondary result
\* succeeded, the base is the first successful result of any kind.
C4_BaseSelection ==
    (MergeDone /\ Succeeded # {}) =>
      LET base == OutcomeAnswer(BaseTarget, merge.outcomes[BaseTarget]) IN
      /\ merge.response.status_code = 200
      /\ SubSeq(merge.response.answer, 1, Len(base)) = base
      /\ SecondaryPositions = {} \/ PrimaryPositions = {}
            => merge.response.answer = base

C4_Witness ==
    /\ MergeDone
    /\ Len(merge.targets) = 3
    /\ ~merge.targets[1].secondary /\ merge.outcomes[1] \in {"no_client", "raises"}
    /\ merge.targets[2].secondary /\ merge.outcomes[2] = "long"
    /\ ~merge.targets[3].secondary /\ merge.outcomes[3] = "short"
    /\ merge.response.status_code = 200
    /\ merge.response.answer[1] = "3"

\* The supplied targets whose call succeeded, from position i on, as results
RECURSIVE SuppliedResults(_)
SuppliedResults(i) ==
    IF i > Len(merge.request.queryTargets) THEN << >>
    ELSE (IF merge.outcomes[i] \in {"short", "long"}
          THEN <<[type |-> merge.request.queryTargets[i].type,
                  kbId |-> merge.request.queryTargets[i].kbId,
                  secondary |-> merge.request.queryTargets[i].secondary]>>
          ELSE << >>)
         \o SuppliedResults(i + 1)

\* C12: when a request carries a non-empty explicit target list, the targets
\* queried are exactly the supplied ones, in the supplied order and with the
\* supplied secondary flags, whatever the query text, the mode and the
\* application's sources are; the keyword classifier is not run.
C12_ExplicitVerbatim ==
    (MergeDone /\ Len(merge.request.queryTargets) > 0) =>
       /\ merge.queried = merge.request.queryTargets
       /\ ~merge.classified /\ ~merge.single
       /\ Len(merge.outcomes) = Len(merge.request.queryTargets)
       /\ [i \in DOMAIN merge.results |->
             [type |-> merge.results[i].source_type,
              kbId |-> merge.results[i].kb_id,
              secondary |-> merge.results[i].is_secondary]] = SuppliedResults(1)

\* C12 witness: explicit targets that differ from what the classifier would
\* choose for the request's text, mode and application
C12_Witness ==
    /\ MergeDone
    /\ Len(merge.request.queryTargets) = 2
    /\ merge.request.queryTargets[1].type = "support"
    /\ merge.request.queryTargets[2].secondary
    /\ merge.request.userContext # None
    /\ merge.request.queryMode = "documentation"
    /\ merge.app_kbs = FullApplication
    /\ merge.queried = merge.request.queryTargets
    /\ Len(merge.results) = 2

\* The response is the error raised when the loop produced no result
AllSourcesUnavailable ==
    /\ merge.response.status_code = 500
    /\ merge.response.detail = "No knowledge bases could be queried"

\* Positions of the queried targets whose call failed / succeeded
FailedCalls ==
    {i \in DOMAIN merge.queried : merge.outcomes[i] \in {"no_client", "raises"}}
SucceededCalls == DOMAIN merge.queried \ FailedCalls

\* C13: a request whose targets are queried ends with the hard error
\* AllSourcesUnavailable if and only if every target's call fails (no client,
\* or the query raises); when at least one call succeeds the failed targets
\* are skipped and an answer is merged from the successful results alone.
C13_AllFailIffError ==
    MergeDone =>
       /\ AllSourcesUnavailable
             <=> (merge.queried # << >> /\ SucceededCalls = {})
       /\ SucceededCalls # {} =>
             /\ merge.response.status_code = 200
             /\ Len(merge.results) = Cardinality(SucceededCalls)
             /\ \A r \in DOMAIN merge.results :
                   \E i \in SucceededCalls :
                      merge.results[r].answer = OutcomeAnswer(i, merge.outcomes[i])
             /\ \E i \in SucceededCalls :
                   LET base == OutcomeAnswer(i, merge.outcomes[i]) IN
                   SubSeq(merge.response.answer, 1, Len(base)) = base

\* C13 witness: the first and the last of three targets fail, the second
\* succeeds and its answer is returned
C13_Witness ==
    /\ MergeDone
    /\ Len(merge.queried) = 3
    /\ merge.outcomes[1] = "raises" /\ merge.outcomes[2] = "long"
    /\ merge.outcomes[3] = "no_client"
    /\ merge.response.status_code = 200
    /\ merge.response.answer = OutcomeAnswer(2, "long")

\* Routing resolved no usable target: the request was classified and the
\* Router returned the empty list
NoTargetsResolved == MergeDone /\ merge.classified /\ merge.targets = << >>

\* C14 as stated: when routing resolves no usable target, the request ends
\* with a NoTargetsAvailable error that carries status 400, which tells it
\* apart from the status 500 of AllSourcesUnavailable, and no knowledge
\* source is queried for that request.
C14_Original ==
    NoTargetsResolved =>
       /\ merge.response.status_code = 400
       /\ merge.response.detail = "No knowledge base targets available for this query"
       /\ merge.queried = << >> /\ merge.results = << >>

-----------------------------------------------------------------------------
(* Router claims, checked under SpecRouter *)

Routed == route.phase = "routed"
RouteDb == db_score(route.query_text)
RouteSupport == support_score(route.query_text)
RouteDoc == doc_score(route.query_text)
SupportConfigured == Truthy(route.app_kbs.supportKnowledgeBaseId)
DocConfigured == Truthy(route.app_kbs.documentationKnowledgeBaseId)
DatabaseTarget ==
    [type |-> "database", kbId |-> route.app_kbs.databaseKnowledgeBaseId,
     secondary |-> FALSE]
SupportTarget ==
    [type |-> "support", kbId |-> route.app_kbs.supportKnowledgeBaseId,
     secondary |-> FALSE]
DocTarget ==
    [type |-> "documentation", kbId |-> route.app_kbs.documentationKnowledgeBaseId,
     secondary |-> FALSE]

\* C5: in forced mode database the Router yields exactly one target, of type
\* database and bound to the application's database source, for every query
\* text and every descriptor set.
C5_ForcedDatabase ==
    (Routed /\ route.query_mode = "database") => route.targets = <<DatabaseTarget>>

C5_Witness ==
    /\ Routed /\ route.query_mode = "database"
    /\ SupportConfigured /\ DocConfigured
    /\ RouteSupport > RouteDb
    /\ route.targets = <<DatabaseTarget>>

C8_SmartDatabase ==
    (/\ Routed /\ route.query_mode = "smart"
     /\ RouteDb >= 2 /\ RouteSupport = 0 /\ RouteDoc = 0)
    => route.targets = <<DatabaseTarget>>

C8_Witness ==
    /\ Routed /\ route.query_mode = "smart"
    /\ RouteDb >= 2 /\ RouteSupport = 0 /\ RouteDoc = 0
    /\ SupportConfigured /\ DocConfigured
    /\ route.targets = <<DatabaseTarget>>

\* The type with the highest count, ties database > support > documentation
RankedWinner ==
    IF RouteDb >= RouteSupport /\ RouteDb >= RouteDoc THEN "database"
    ELSE IF RouteSupport >= RouteDoc THEN "support"
    ELSE "documentation"

TypeConfigured(type) ==
    CASE type = "database" -> TRUE
      [] type = "support" -> SupportConfigured
      [] type = "documentation" -> DocConfigured

TypeTarget(type) ==
    CASE type = "database" -> DatabaseTarget
      [] type = "support" -> SupportTarget
      [] type = "documentation" -> DocTarget

TypeCount(type) ==
    CASE type = "database" -> RouteDb
      [] type = "support" -> RouteSupport
      [] type = "documentation" -> RouteDoc

TypeRank(type) ==
    CASE type = "database" -> 1
      [] type = "support" -> 2
      [] type = "documentation" -> 3

\* t1 is ranked before t2: higher count, ties database > support > documentation
RankedBefore(t1, t2) ==
    \/ TypeCount(t1) > TypeCount(t2)
    \/ TypeCount(t1) = TypeCount(t2) /\ TypeRank(t1) < TypeRank(t2)

\* The best ranked type whose source is configured
BestConfigured ==
    CHOOSE t \in {"database", "support", "documentation"} :
        /\ TypeConfigured(t)
        /\ \A u \in {"database", "support", "documentation"} \ {t} :
              TypeConfigured(u) => RankedBefore(t, u)

\* C9 as stated: in smart mode the Router picks the type with the highest
\* keyword count, ties resolving database > support > documentation (support
\* wins a support / documentation tie when the support source is configured).
C9_Original ==
    (Routed /\ route.query_mode = "smart" /\ TypeConfigured(RankedWinner))
    => route.targets = <<TypeTarget(RankedWinner)>>

C11_DatabaseOnly ==
    (Routed /\ route.query_mode = "smart"
        /\ ~SupportConfigured /\ ~DocConfigured)
    => (Len(route.targets) = 1 /\ route.targets[1].type = "database"
          /\ route.targets[1].kbId = route.app_kbs.databaseKnowledgeBaseId)

\* C11 witness: the query counts more support and documentation keywords
\* than database ones, and still goes to the database
C11_Witness ==
    /\ Routed /\ route.query_mode = "smart"
    /\ ~SupportConfigured /\ ~DocConfigured
    /\ RouteSupport > RouteDb /\ RouteDoc > RouteDb
    /\ route.targets = <<DatabaseTarget>>

-----------------------------------------------------------------------------
(* Correction Loop claims, checked under SpecLoop *)

\* Run r's call of process_pending_feedback starts in this step
CallStarts(r) == runs'[r].calls = runs[r].calls + 1

\* Rows of query_feedback that are pending corrections of a pair
PendingCorrections(kb_id, company_id) ==
    {i \in DOMAIN tables.feedback :
        /\ tables.feedback[i].KnowledgeBaseId = kb_id
        /\ tables.feedback[i].CompanyId = company_id
        /\ tables.feedback[i].FeedbackType = "correction"
        /\ tables.feedback[i].ProcessingStatus = "pending"}

\* C16: process_pending_feedback on a (source, company) pair with zero
\* pending correction-type records returns status no_pending_feedback with a
\* processed count of 0 and performs no mutation: no record changes status
\* and no training_data or kb_improvement_log row is created, however many
\* times it is called.
C16_NoPendingNoMutation ==
    [][\A r \in Runs :
          (CallStarts(r)
              /\ PendingCorrections(runs'[r].kb_id, runs'[r].company_id) = {})
          => /\ runs'[r].pc = "done"
             /\ runs'[r].result =
                   [status |-> "no_pending_feedback", processed |-> 0,
                    training_data_ids |-> << >>]
             /\ tables' = tables]_vars

\* C16 witness: a second call on a connection returned no_pending_feedback
\* for a pair that has a pending record of another type, and no row was
\* ever created
C16_Witness ==
    \E r \in Runs :
       /\ runs[r].pc = "done" /\ runs[r].calls = 2
       /\ runs[r].result.status = "no_pending_feedback"
       /\ \E i \in DOMAIN tables.feedback :
             /\ tables.feedback[i].KnowledgeBaseId = runs[r].kb_id
             /\ tables.feedback[i].FeedbackType = "rating"
             /\ tables.feedback[i].ProcessingStatus = "pending"
       /\ tables.training_data = << >> /\ tables.improvement_log = << >>

\* The training_data rows that run r created from record f in its call
DerivedInRun(r, f) ==
    {d \in DOMAIN tables.training_data :
        /\ tables.training_data[d].FeedbackId = f
        /\ \E k \in DOMAIN runs[r].training_data_ids :
              runs[r].training_data_ids[k] = tables.training_data[d].Id}

\* C17 as stated: after a process_pending_feedback run on a pair with
\* pending records, a record is marked reviewed if and only if a
\* TrainingDatum derived from it was persisted in that run, and the processed
\* count equals the number of returned training data ids.
C17_Original ==
    \A r \in Runs :
       (runs[r].pc = "done" /\ runs[r].result.status = "success") =>
          /\ \A k \in DOMAIN runs[r].pending_feedback :
                LET f == runs[r].pending_feedback[k] IN
                tables.feedback[f].ProcessingStatus = "reviewed"
                   <=> DerivedInRun(r, f) # {}
          /\ runs[r].result.processed = Len(runs[r].result.training_data_ids)

\* What a training_data row holds, apart from its transaction
DatumContent(row) ==
    [Id |-> row.Id, FeedbackId |-> row.FeedbackId, CompanyId |-> row.CompanyId,
     KnowledgeBaseId |-> row.KnowledgeBaseId]

\* C18: across any sequence of Correction Loop operations a record's
\* status never moves from reviewed back to pending, only pending records
\* are ever moved to reviewed, and no query_feedback or training_data row is
\* ever deleted or (for training_data) modified after creation.
C18_StatusOnlyAdvances ==
    [][/\ Len(tables'.feedback) >= Len(tables.feedback)
       /\ \A i \in DOMAIN tables.feedback :
             /\ tables'.feedback[i].ProcessingStatus
                   # tables.feedback[i].ProcessingStatus
                => (/\ tables.feedback[i].ProcessingStatus = "pending"
                    /\ tables'.feedback[i].ProcessingStatus = "reviewed")
             /\ tables.feedback[i].ProcessingStatus = "reviewed"
                => tables'.feedback[i].ProcessingStatus = "reviewed"
       /\ Len(tables'.training_data) >= Len(tables.training_data)
       /\ \A d \in DOMAIN tables.training_data :
             DatumContent(tables'.training_data[d])
                = DatumContent(tables.training_data[d])]_vars

\* C18 witness: a record was reviewed, a second training_data row exists
\* beside its own, and all calls were made
C18_Witness ==
    /\ CallsMade = MaxCalls
    /\ Len(tables.training_data) >= 2
    /\ \E i \in DOMAIN tables.feedback :
          /\ tables.feedback[i].ProcessingStatus = "reviewed"
          /\ \E d \in DOMAIN tables.training_data :
                tables.training_data[d].FeedbackId = i /\ tables.training_data[d].tx = 0

\* C19 as stated: under any interleaving of process_pending_feedback runs
\* for the same pair no pending record is processed twice: at most one
\* training_data row is ever created per query_feedback row.
C19_Original ==
    \A f \in DOMAIN tables.feedback :
       Cardinality({d \in DOMAIN tables.training_data :
                       tables.training_data[d].FeedbackId = f}) <= 1

\* Another run for the pair is in flight
InFlightFor(r, kb_id, company_id) ==
    \E other \in Runs \ {r} :
       /\ runs[other].pc \notin {"idle", "done"}
       /\ runs[other].kb_id = kb_id /\ runs[other].company_id = company_id

\* C20 as stated: while one run for a pair is in flight, a second call for
\* the same pair returns ConcurrentProcessingError at once and mutates no
\* record; runs for different pairs do not exclude each other.
C20_Original ==
    [][\A r \in Runs :
          CallStarts(r) =>
             IF InFlightFor(r, runs'[r].kb_id, runs'[r].company_id)
             THEN /\ runs'[r].pc = "done"
                  /\ runs'[r].result.status = "ConcurrentProcessingError"
                  /\ tables' = tables
             ELSE runs'[r].result.status # "ConcurrentProcessingError"]_vars

\* The kb_improvement_log rows that hold the training data ids of run r
LogRowsOf(log, run) ==
    {i \in DOMAIN log : log[i].TrainingDataIds = run.training_data_ids}

C23_Original ==
    \A r \in Runs :
       (runs[r].pc = "done" /\ runs[r].reviewed > 0) =>
          /\ Len(runs[r].corrected_docs) = Len(runs[r].training_data_ids)
          /\ \A k \in DOMAIN runs[r].training_data_ids :
                Cardinality({d \in DOMAIN runs[r].corrected_docs :
                                runs[r].corrected_docs[d].Id
                                   = runs[r].training_data_ids[k]}) = 1

-----------------------------------------------------------------------------
(* Aggregator claims, checked under SpecAggregator *)

Merged == agg.phase = "merged"

\* Scores of the input contexts that carry fingerprint h
InputScores(h) ==
    {agg.all_contexts[i].score :
        i \in {j \in DOMAIN agg.all_contexts :
                  content_hash(agg.all_contexts[j].content) = h}}

\* Entries of the deduplicated dict that carry fingerprint h
Survivors(h) ==
    {i \in DOMAIN agg.unique_contexts :
        content_hash(agg.unique_contexts[i].value.content) = h}

\* C2: in every merge, for every fingerprint that occurs among the input
\* contexts exactly one context with that fingerprint survives deduplication,
\* and its score is the maximum score among the input contexts sharing that
\* fingerprint, whatever the order in which the contexts arrive.
C2_DedupKeepsMax ==
    Merged =>
      \A k \in DOMAIN agg.all_contexts :
         LET h == content_hash(agg.all_contexts[k].content) IN
         /\ Cardinality(Survivors(h)) = 1
         /\ \A i \in Survivors(h) :
               /\ agg.unique_contexts[i].value.score \in InputScores(h)
               /\ \A sc \in InputScores(h) :
                     agg.unique_contexts[i].value.score >= sc

C2_Witness ==
    /\ Merged
    /\ \E i, j \in DOMAIN agg.all_contexts :
          /\ i < j
          /\ agg.all_contexts[i].content = agg.all_contexts[j].content
          /\ agg.all_contexts[i].score > agg.all_contexts[j].score
    /\ \E i, j \in DOMAIN agg.all_contexts :
          /\ i < j
          /\ agg.all_contexts[i].content = agg.all_contexts[j].content
          /\ agg.all_contexts[i].score < agg.all_contexts[j].score
    /\ Len(agg.unique_contexts) < Len(agg.all_contexts)

RECURSIVE CollapseWhitespace(_)
\* Every run of whitespace becomes one space
CollapseWhitespace(text) ==
    IF text = << >> THEN << >>
    ELSE IF Head(text) \in Whitespace
    THEN IF Len(text) > 1 /\ text[2] \in Whitespace
         THEN CollapseWhitespace(Tail(text))
         ELSE <<" ">> \o CollapseWhitespace(Tail(text))
    ELSE <<Head(text)>> \o CollapseWhitespace(Tail(text))

\* Case-folded, whitespace-collapsed content
NormalizedContent(content) == CollapseWhitespace(Lower(content))

\* C24 as stated: two contexts whose content differs only in letter case
\* or in runs of whitespace have equal fingerprints and are deduplicated to
\* a single entry; identical content always yields the same fingerprint.
C24_Original ==
    Merged =>
      \A i, j \in DOMAIN agg.all_contexts :
         LET ci == agg.all_contexts[i].content
             cj == agg.all_contexts[j].content IN
         NormalizedContent(ci) = NormalizedContent(cj) =>
            /\ content_hash(ci) = content_hash(cj)
            /\ Cardinality({k \in DOMAIN agg.unique_contexts :
                               NormalizedContent(agg.unique_contexts[k].value.content)
                                  = NormalizedContent(ci)}) = 1

\* Fingerprints among the input contexts
InputFingerprints ==
    {content_hash(agg.all_contexts[i].content) : i \in DOMAIN agg.all_contexts}

Smaller(a, b) == IF a < b THEN a ELSE b

\* C25: the contexts returned for a requested count k are in
\* non-increasing score order, number min(k, count of unique fingerprints in
\* the union), carry pairwise different fingerprints, and no unique context
\* left out has a higher score than one that was included, whatever order
\* the contexts arrived in.
C25_SortedTopK ==
    Merged =>
      LET sorted_contexts == agg.sorted_contexts
          values == DictValues(agg.unique_contexts)
          Included(v) == \E i \in DOMAIN sorted_contexts : sorted_contexts[i] = v IN
      /\ \A i, j \in DOMAIN sorted_contexts :
            i < j => /\ sorted_contexts[i].score >= sorted_contexts[j].score
                     /\ content_hash(sorted_contexts[i].content)
                           # content_hash(sorted_contexts[j].content)
      /\ Len(sorted_contexts)
            = Smaller(agg.num_results, Cardinality(InputFingerprints))
      /\ \A i \in DOMAIN sorted_contexts :
            \E k \in DOMAIN values : values[k] = sorted_contexts[i]
      /\ \A k \in DOMAIN values :
            ~Included(values[k]) =>
               \A i \in DOMAIN sorted_contexts :
                  values[k].score <= sorted_contexts[i].score

\* C25 witness: the contexts arrived in increasing score order, more unique
\* contexts than requested, and the one left out has the lowest score
C25_Witness ==
    /\ Merged
    /\ Len(agg.unique_contexts) > agg.num_results
    /\ Len(agg.sorted_contexts) = agg.num_results
    /\ agg.num_results >= 2
    /\ \A i, j \in DOMAIN agg.all_contexts :
          i < j => agg.all_contexts[i].score < agg.all_contexts[j].score

=============================================================================
